---------------------------- MODULE Spec2Model ----------------------------
(***************************************************************************)
(* Model of the asynchronous SD storage job engine of the e-ink photo      *)
(* frame firmware (src/src/app/sd_storage_service.cpp) and of the callers  *)
(* that reach the storage medium (src/src/app/portal_controller.cpp).      *)
(*                                                                         *)
(* A job object is identified by its id (ids are unique per allocation in  *)
(* every run explored here), so a pointer to a job is modelled by the id   *)
(* and the heap by a function from the ids of the allocated jobs to their  *)
(* fields.  A pointer whose id is not in DOMAIN heap is dangling.          *)
(***************************************************************************)
EXTENDS Integers, Sequences, FiniteSets, TLC

(***************************************************************************)
(* Program constants.  g_next_job_id is 32 bits wide; every run explored   *)
(* here keeps it far below 2^32, so it is modelled without the             *)
(* wrap-around.                                                            *)
(***************************************************************************)
kMaxJobs == 16
kJobGcMinAgeMs == 60000
kJobQueueDepth == 8
kMaxNameLen == 127

(***************************************************************************)
(* Bounds of the exploration.                                              *)
(***************************************************************************)
\* enqueue_* calls per run of Spec and LiveSpec
MaxJobs == 2
\* the first MaxFreeCalls calls of Spec choose any job type and may come
\* before sd_storage_configure; the later ones take the six job types in
\* rotation
MaxFreeCalls == 1
\* the clock advances MaxTicks times by TickMs
MaxTicks == 1
\* enqueue_* calls per run of BurstSpec
MaxBurst == 18
\* the worker of BurstSpec receives only the jobs with an id up to this one
MaxBurstWorkerId == 1

\* the threads that call sd_storage_enqueue_list in AllocSpec
MaxCallers == 2
\* the calls each of them makes
MaxCallsEach == 2
\* enqueue_delete, enqueue_upload and enqueue_display calls per run of NameSpec
MaxNameJobs == 2
\* enqueue_sync_from_azure calls per run of SyncSpec
MaxSyncs == 1
\* the blobs in the remote container
MaxBlobs == 3
\* enqueue_render_next calls per run of RenderSpec
MaxRenders == 3
\* "show_next" commands per run of RenderSpec
MaxShowNext == 1
\* the files of /perm and /temp together
MaxRenderFiles == 3
\* sd_storage_enqueue_render_next calls of the scheduler per run of SchedSpec
MaxSchedJobs == 3
\* millis() advances by TickMs up to MaxSchedTicks * TickMs in SchedSpec
MaxSchedTicks == 2
\* "show_next" commands per run of MailboxSpec
MaxMailboxWrites == 2
\* enqueue_render_next calls per run of MailboxSpec
MaxMailboxRenders == 1
\* sd_storage_enqueue_upload calls of blob pull per run of BlobPullSpec
MaxPullUploads == 2
\* jobs per run of CollectionSpec
MaxCollectionJobs == 3
\* enqueue_upload calls per run of UploadSpec
MaxUploads == 1
\* the size of the payload in bytes
MaxPayload == 2

TickMs == kJobGcMinAgeMs

(***************************************************************************)
(* millis() and the times derived from it are uint32_t / unsigned long, 32 *)
(* bits wide.  A 32-bit value is written here as the integer of            *)
(* -2^31 .. 2^31 - 1 congruent to it modulo 2^32: the values just below    *)
(* 2^32 are the negative numbers, so the time  2^32 - d  milliseconds      *)
(* after boot is -d and the counter runs from -1 to 0 where millis() rolls *)
(* over.  Every time used here lies within a few minutes of 0 or of the    *)
(* rollover, hence sums and differences are those of the integers, and     *)
(* only the unsigned comparisons differ from the comparisons of integers.  *)
(***************************************************************************)
\* a < b for two unsigned 32-bit values
uint32_lt(a, b) == IF (a < 0) = (b < 0) THEN a < b ELSE b < 0

\* a >= b for two unsigned 32-bit values
uint32_ge(a, b) == ~uint32_lt(a, b)

NULL == 0

SdJobTypes == {"List", "Delete", "Upload", "Display", "RenderNext", "SyncFromAzure"}

TypeSeq == << "List", "Delete", "Upload", "Display", "RenderNext", "SyncFromAzure" >>

\* the job types the call that allocates job `id` may ask for
ScriptTypes(id, typed) ==
    IF id <= typed THEN SdJobTypes ELSE { TypeSeq[((id - 1) % 6) + 1] }

Slots == 0 .. (kMaxJobs - 1)

VARIABLES
    g_spi,          \* g_spi != nullptr
    g_job_queue,    \* g_job_queue != nullptr
    queue,          \* content of the FreeRTOS queue: job pointers, oldest first
    g_worker_task,  \* g_worker_task != nullptr
    g_jobs,         \* the job table: slot -> job pointer or NULL
    heap,           \* the allocated SdJob objects
    g_next_job_id,
    g_sd_ready,
    now,            \* millis()
    sd_mountable,   \* environment: would sd_photo_picker_init succeed now
    wpc,            \* position of worker_task
    wjob,           \* worker_task's local `job`
    cpc,            \* position of the portal thread in init_sd_for_portal
    bufs,           \* upload payload buffers: who freed each, how often
    effects,        \* ids of the jobs whose handler ran on the medium
    rets,           \* the values the enqueue_* calls returned, in call order
    ub,             \* undefined behaviour the run has executed
    sd_files,       \* the files on the medium: path -> content
    sd_dirs,        \* the directories on the medium
    g_rtc_image_state,  \* the record kept in RTC memory (rtc_state.cpp)
    clock,          \* time(nullptr), seconds since the epoch
    azure,          \* the remote container and the network, as the job finds them
    g_render_paused,    \* web_portal_render_control.cpp
    req,            \* the arguments the callers pass to enqueue_*
    hpc,            \* position of the worker inside the job's handler
    loc,            \* the handler's local variables
    trace,          \* what the handlers did: renders, downloads, removals
    callers,        \* the threads inside sd_storage_enqueue_*: position and locals
    render_scheduler    \* the variables of render_scheduler.cpp

\* the state of the job engine
evars == << g_spi, g_job_queue, queue, g_worker_task, g_jobs, heap, g_next_job_id,
            g_sd_ready, now, sd_mountable, wpc, wjob, cpc, bufs, effects, rets, ub >>

\* the state the handlers of the jobs work on
\* the state of the threads that call the job engine
cvars == << callers, render_scheduler >>

hvars == << sd_files, sd_dirs, g_rtc_image_state, clock, azure, g_render_paused, req,
            hpc, loc, trace, cvars >>

vars == << evars, hvars >>

Range(f) == { f[x] : x \in DOMAIN f }

IsTerminal(state) == state \in {"Done", "Error"}

Live(p) == p \in DOMAIN heap

(***************************************************************************)
(* job_set_message, alloc_job                                              *)
(***************************************************************************)
job_set_message(job, msg) == [job EXCEPT !.message = msg]

NextJobIdSkip(id) == id

NextJobId(id) == id + 1

alloc_job(id, type, buffer, t) ==
    [ id |-> id, type |-> type, state |-> "Queued", success |-> FALSE,
      bytes |-> 0, created_ms |-> t, updated_ms |-> t, message |-> "",
      buffer |-> buffer, names |-> << >> ]

(***************************************************************************)
(* free_job: releases the owned payload buffer, then the job.  free_jobs   *)
(* is the buffer bookkeeping after `thread` ran free_job on the jobs `ids`.*)
(* The payload buffer of an Upload job is named by the id of the job it    *)
(* was handed to; bufs records how often heap_caps_free was called on it   *)
(* (2 stands for twice or more) and by which threads.                      *)
(***************************************************************************)
FreeBuffer(bs, b, thread) ==
    [bs EXCEPT ![b].frees = IF @ < 2 THEN @ + 1 ELSE 2,
               ![b].by = @ \cup {thread}]

GiveBuffer(bs, b) ==
    IF b = NULL THEN bs ELSE (b :> [frees |-> 0, by |-> {}]) @@ bs

BuffersOf(h, ids) == { h[i].buffer : i \in ids } \ {NULL}

free_jobs(bs, h, ids, thread) ==
    [b \in DOMAIN bs |-> IF b \in BuffersOf(h, ids) THEN FreeBuffer(bs, b, thread)[b]
                                                    ELSE bs[b]]

(***************************************************************************)
(* gc_jobs_locked.  A table slot may hold a dangling pointer; reading the  *)
(* freed object is undefined, and D is the set of dangling slots whose     *)
(* memory reads as a collectable job in this call.                         *)
(***************************************************************************)
DanglingSlots(tbl, h) == { s \in Slots : tbl[s] # NULL /\ tbl[s] \notin DOMAIN h }

AgeMs(job, t) == t - job.updated_ms

GcCollectableAnyAge(job, t) == IsTerminal(job.state)

GcCollectableAnyState(job, t) == ~uint32_lt(AgeMs(job, t), kJobGcMinAgeMs)

GcCollectable(job, t) ==
    /\ ~(job.state = "Queued" \/ job.state = "Running")
    /\ ~uint32_lt(AgeMs(job, t), kJobGcMinAgeMs)

GcSlots(tbl, h, t, D) ==
    { s \in Slots : /\ tbl[s] # NULL
                    /\ IF tbl[s] \in DOMAIN h THEN GcCollectable(h[tbl[s]], t)
                                              ELSE s \in D }

gc_jobs_locked(tbl, h, t, D) ==
    LET gone == GcSlots(tbl, h, t, D) IN
    [ tbl    |-> [s \in Slots |-> IF s \in gone THEN NULL ELSE tbl[s]],
      freed  |-> { tbl[s] : s \in { x \in gone : tbl[x] \in DOMAIN h } },
      dfreed |-> { s \in gone : tbl[s] \notin DOMAIN h } ]

(***************************************************************************)
(* store_job.  E is the set of dangling slots whose memory reads, in the   *)
(* eviction scan, as the oldest completed job.                             *)
(***************************************************************************)
MinOf(S) == CHOOSE x \in S : \A y \in S : x <= y

\* the smallest of a set of unsigned 32-bit values
Uint32MinOf(S) == CHOOSE x \in S : \A y \in S : ~uint32_lt(y, x)

EvictCandidates(tbl, h) ==
    { s \in Slots : /\ tbl[s] # NULL
                    /\ tbl[s] \in DOMAIN h
                    /\ ~(h[tbl[s]].state = "Queued" \/ h[tbl[s]].state = "Running") }

\* the first slot holding the smallest updated_ms (the scan replaces only on <)
OldestIdx(tbl, h) ==
    LET c == EvictCandidates(tbl, h)
        m == Uint32MinOf({ h[tbl[s]].updated_ms : s \in c })
    IN  MinOf({ s \in c : h[tbl[s]].updated_ms = m })

store_job(tbl, h, t, p, D, E) ==
    LET g    == gc_jobs_locked(tbl, h, t, D)
        h1   == [i \in DOMAIN h \ g.freed |-> h[i]]
        free == { s \in Slots : g.tbl[s] = NULL }
        dang == E \cap DanglingSlots(g.tbl, h1)
    IN  IF free # {}
        THEN [ ok |-> TRUE, tbl |-> [g.tbl EXCEPT ![MinOf(free)] = p],
               freed |-> g.freed, dfreed |-> g.dfreed ]
        ELSE IF dang # {}
        THEN [ ok |-> TRUE, tbl |-> [g.tbl EXCEPT ![MinOf(dang)] = p],
               freed |-> g.freed, dfreed |-> g.dfreed \cup {MinOf(dang)} ]
        ELSE IF EvictCandidates(g.tbl, h1) # {}
        THEN LET o == OldestIdx(g.tbl, h1) IN
             [ ok |-> TRUE, tbl |-> [g.tbl EXCEPT ![o] = p],
               freed |-> g.freed \cup {g.tbl[o]}, dfreed |-> g.dfreed ]
        ELSE [ ok |-> FALSE, tbl |-> g.tbl, freed |-> g.freed, dfreed |-> g.dfreed ]

(***************************************************************************)
(* find_job, sd_storage_get_job                                            *)
(***************************************************************************)
NotFound == [found |-> FALSE]

find_job(tbl, h, id) ==
    IF \E s \in Slots : tbl[s] # NULL /\ tbl[s] \in DOMAIN h /\ h[tbl[s]].id = id
    THEN id
    ELSE NULL

sd_storage_get_job(tbl, h, id) ==
    IF id = 0 \/ find_job(tbl, h, id) = NULL
    THEN NotFound
    ELSE LET job == h[find_job(tbl, h, id)] IN
         [ found |-> TRUE, id |-> job.id, type |-> job.type, state |-> job.state,
           success |-> job.success, bytes |-> job.bytes,
           created_ms |-> job.created_ms,
           updated_ms |-> job.updated_ms, message |-> job.message ]

(***************************************************************************)
(* enqueue_job                                                             *)
(***************************************************************************)
QueueFullKeepQueued(job, t) ==
    [job EXCEPT !.success = FALSE, !.message = "Queue full", !.updated_ms = t]

QueueFullMark(job, t) ==
    [job_set_message([job EXCEPT !.state = "Error", !.success = FALSE], "Queue full")
        EXCEPT !.updated_ms = t]

UbAfter(dfreed) == IF dfreed # {} THEN ub \cup {"double_free"} ELSE ub

enqueue_job(job, D, E) ==
    LET st == store_job(g_jobs, heap, now, job.id, D, E)
        h1 == [i \in DOMAIN heap \ st.freed |-> heap[i]]
        b1 == free_jobs(GiveBuffer(bufs, job.buffer), heap, st.freed, "caller")
        b2 == IF job.buffer # NULL THEN FreeBuffer(b1, job.buffer, "caller") ELSE b1
    IN  /\ g_jobs' = st.tbl
        /\ ub' = UbAfter(st.dfreed)
        /\ IF ~st.ok \/ ~g_job_queue
           THEN /\ heap' = h1
                /\ bufs' = b2
                /\ queue' = queue
                /\ rets' = Append(rets, 0)
           ELSE IF Len(queue) < kJobQueueDepth
           THEN /\ heap' = (job.id :> job) @@ h1
                /\ bufs' = b1
                /\ queue' = Append(queue, job.id)
                /\ rets' = Append(rets, job.id)
           ELSE /\ heap' = (job.id :> QueueFullMark(job, now)) @@ h1
                /\ bufs' = b1
                /\ queue' = queue
                /\ rets' = Append(rets, job.id)

\* the part every sd_storage_enqueue_* shares: alloc_job, the type and the
\* arguments, enqueue_job.  A run makes `limit` calls, `pre` of them before
\* sd_storage_configure, and the first `typed` with a type of its choice.
Enqueue(type, limit, pre, typed) ==
    /\ g_next_job_id <= limit
    /\ g_job_queue \/ g_next_job_id <= pre
    /\ type \in ScriptTypes(g_next_job_id, typed)
    /\ \E D \in SUBSET DanglingSlots(g_jobs, heap) :
         \E E \in SUBSET (DanglingSlots(g_jobs, heap) \ D) :
           enqueue_job(alloc_job(g_next_job_id, type,
                                 IF type = "Upload" THEN g_next_job_id ELSE NULL, now),
                       D, E)
    /\ g_next_job_id' = NextJobId(g_next_job_id)
    /\ UNCHANGED << g_spi, g_job_queue, g_worker_task, g_sd_ready, now, sd_mountable,
                    wpc, wjob, cpc, effects >>
    /\ UNCHANGED hvars

sd_storage_enqueue_list(limit, pre, typed) == Enqueue("List", limit, pre, typed)

sd_storage_enqueue_delete(limit, pre, typed) == Enqueue("Delete", limit, pre, typed)

sd_storage_enqueue_upload(limit, pre, typed) == Enqueue("Upload", limit, pre, typed)

sd_storage_enqueue_display(limit, pre, typed) == Enqueue("Display", limit, pre, typed)

sd_storage_enqueue_render_next(limit, pre, typed) == Enqueue("RenderNext", limit, pre, typed)

sd_storage_enqueue_sync_from_azure(limit, pre, typed) ==
    Enqueue("SyncFromAzure", limit, pre, typed)

(***************************************************************************)
(* sd_storage_enqueue_list as its caller threads execute it.  alloc_job's  *)
(* "job->id = g_next_job_id++" runs outside every critical section: it is  *)
(* a load of g_next_job_id and, later, a store of the loaded value plus    *)
(* one.  enqueue_job takes g_jobs_mux inside store_job.  Positions of a    *)
(* caller: "idle", "inc" after the load, "enqueue" after the store.  made  *)
(* lists the ids alloc_job gave to the jobs this thread created.  Two jobs *)
(* with one id are one entry of heap here.                                 *)
(***************************************************************************)
CallerThreads == 1 .. MaxCallers

CallerAtRest == [pc |-> "idle", read |-> 0, id |-> 0, made |-> << >>]

AllocLoad(c, limit) ==
    /\ callers[c].pc = "idle"
    /\ Len(callers[c].made) < limit
    /\ callers' = [callers EXCEPT ![c].pc = "inc", ![c].read = g_next_job_id]
    /\ UNCHANGED << evars, render_scheduler >>
    /\ UNCHANGED << sd_files, sd_dirs, g_rtc_image_state, clock, azure, g_render_paused,
                    req, hpc, loc, trace >>

AllocStore(c) ==
    /\ callers[c].pc = "inc"
    /\ g_next_job_id' = NextJobId(callers[c].read)
    /\ callers' = [callers EXCEPT ![c].pc = "enqueue", ![c].id = callers[c].read,
                                  ![c].made = Append(@, callers[c].read)]

CallerAllocStore(c) ==
    /\ AllocStore(c)
    /\ UNCHANGED << g_spi, g_job_queue, queue, g_worker_task, g_jobs, heap, g_sd_ready,
                    now, sd_mountable, wpc, wjob, cpc, bufs, effects, rets, ub >>
    /\ UNCHANGED << sd_files, sd_dirs, g_rtc_image_state, clock, azure, g_render_paused,
                    req, hpc, loc, trace, render_scheduler >>

CallerEnqueue(c) ==
    /\ callers[c].pc = "enqueue"
    /\ \E D \in SUBSET DanglingSlots(g_jobs, heap) :
         \E E \in SUBSET (DanglingSlots(g_jobs, heap) \ D) :
           enqueue_job(alloc_job(callers[c].id, "List", NULL, now), D, E)
    /\ callers' = [callers EXCEPT ![c].pc = "idle"]
    /\ UNCHANGED << g_spi, g_job_queue, g_worker_task, g_next_job_id, g_sd_ready, now,
                    sd_mountable, wpc, wjob, cpc, effects >>
    /\ UNCHANGED << sd_files, sd_dirs, g_rtc_image_state, clock, azure, g_render_paused,
                    req, hpc, loc, trace, render_scheduler >>

(***************************************************************************)
(* sd_storage_configure, sd_storage_purge_jobs                             *)
(***************************************************************************)
sd_storage_configure ==
    /\ ~(g_spi /\ g_job_queue /\ g_worker_task)
    /\ g_spi' = TRUE
    /\ g_job_queue' = TRUE
    /\ g_worker_task' = TRUE
    /\ UNCHANGED << queue, g_jobs, heap, g_next_job_id, g_sd_ready, now, sd_mountable,
                    wpc, wjob, cpc, bufs, effects, rets, ub >>
    /\ UNCHANGED hvars

sd_storage_purge_jobs ==
    /\ \E D \in SUBSET DanglingSlots(g_jobs, heap) :
         LET g == gc_jobs_locked(g_jobs, heap, now, D) IN
         /\ g.freed # {} \/ g.dfreed # {}
         /\ g_jobs' = g.tbl
         /\ heap' = [i \in DOMAIN heap \ g.freed |-> heap[i]]
         /\ bufs' = free_jobs(bufs, heap, g.freed, "caller")
         /\ ub' = UbAfter(g.dfreed)
    /\ UNCHANGED << g_spi, g_job_queue, queue, g_worker_task, g_next_job_id, g_sd_ready,
                    now, sd_mountable, wpc, wjob, cpc, effects, rets >>
    /\ UNCHANGED hvars

(***************************************************************************)
(* worker_task.  Positions: "recv" blocked in xQueueReceive, "ensure"      *)
(* before ensure_sd_ready_internal, "mount" inside sd_photo_picker_init,   *)
(* "sdfail" after the state write of the SD-init failure branch,           *)
(* "handler" inside the job's handler, "stamp" after the state write of    *)
(* the completion, "freebuf" before the buffer release.                    *)
(***************************************************************************)
WorkerReceive(lastId) ==
    /\ g_worker_task
    /\ wpc = "recv"
    /\ queue # << >>
    /\ Head(queue) <= lastId
    /\ wjob' = Head(queue)
    /\ queue' = Tail(queue)
    /\ heap' = [heap EXCEPT ![Head(queue)].state = "Running",
                            ![Head(queue)].updated_ms = now]
    /\ wpc' = "ensure"
    /\ UNCHANGED << g_spi, g_job_queue, g_worker_task, g_jobs, g_next_job_id, g_sd_ready,
                    now, sd_mountable, cpc, bufs, effects, rets, ub >>
    /\ UNCHANGED hvars

\* worker_task's branch on a failed ensure_sd_ready_internal: the state write
SdInitFailState(job) == [job EXCEPT !.state = "Error"]

\* ... and the writes after it
SdInitFailRest(job, t) ==
    [job_set_message([job EXCEPT !.success = FALSE], "SD init failed")
        EXCEPT !.updated_ms = t]

\* where worker_task goes after the state write of a failed SD init
PcAfterSdInitFailHandler == "handler"

PcAfterSdInitFail == "sdfail"

\* where worker_task goes after the last write of a failed SD init
PcAfterFailedJobHalt == "halt"

PcAfterFailedJob == "recv"

\* where worker_task goes after the buffer release
PcAfterJob == "recv"

WorkerSdInitFailed ==
    /\ heap' = [heap EXCEPT ![wjob] = SdInitFailState(@)]
    /\ wpc' = PcAfterSdInitFail
    /\ UNCHANGED g_sd_ready

WorkerEnsure ==
    /\ wpc = "ensure"
    /\ IF g_sd_ready
       THEN /\ wpc' = "handler"
            /\ UNCHANGED << heap, g_sd_ready >>
       ELSE IF ~g_spi
       THEN WorkerSdInitFailed
       ELSE /\ wpc' = "mount"
            /\ UNCHANGED << heap, g_sd_ready >>
    /\ UNCHANGED << g_spi, g_job_queue, queue, g_worker_task, g_jobs, g_next_job_id,
                    now, sd_mountable, wjob, cpc, bufs, effects, rets, ub >>
    /\ UNCHANGED hvars

WorkerMountDone ==
    /\ wpc = "mount"
    /\ IF sd_mountable
       THEN /\ g_sd_ready' = TRUE
            /\ wpc' = "handler"
            /\ UNCHANGED heap
       ELSE WorkerSdInitFailed
    /\ UNCHANGED << g_spi, g_job_queue, queue, g_worker_task, g_jobs, g_next_job_id,
                    now, sd_mountable, wjob, cpc, bufs, effects, rets, ub >>
    /\ UNCHANGED hvars

WorkerSdFailRest ==
    /\ wpc = "sdfail"
    /\ IF Live(wjob)
       THEN /\ heap' = [heap EXCEPT ![wjob] = SdInitFailRest(@, now)]
            /\ UNCHANGED ub
       ELSE /\ ub' = ub \cup {"worker_use_after_free"}
            /\ UNCHANGED heap
    /\ wpc' = PcAfterFailedJob
    /\ UNCHANGED << g_spi, g_job_queue, queue, g_worker_task, g_jobs, g_next_job_id,
                    g_sd_ready, now, sd_mountable, wjob, cpc, bufs, effects, rets >>
    /\ UNCHANGED hvars

\* the messages a failing handler leaves, by job type
FailMessages(type) ==
    CASE type = "List"          -> {"SD unavailable"}
      [] type = "Delete"        -> {"Invalid name", "Not found", "Delete failed"}
      [] type = "Upload"        -> {"Invalid filename", "Write failed"}
      [] type = "Display"       -> {"Invalid name", "Not found", "Render init failed",
                                    "Render failed"}
      [] type = "RenderNext"    -> {"Render failed"}
      [] type = "SyncFromAzure" -> {"Sync failed"}

\* the switch on job->type, then job->success and job->state
JobCompleted(job, ok, msg) ==
    [job_set_message(job, IF ok THEN job.message ELSE msg)
        EXCEPT !.success = ok, !.state = IF ok THEN "Done" ELSE "Error"]

WorkerHandler ==
    /\ wpc = "handler"
    /\ \E ok \in BOOLEAN :
         \E msg \in FailMessages(heap[wjob].type) :
           heap' = [heap EXCEPT ![wjob] = JobCompleted(@, ok, msg)]
    /\ effects' = effects \cup {wjob}
    /\ wpc' = "stamp"
    /\ UNCHANGED << g_spi, g_job_queue, queue, g_worker_task, g_jobs, g_next_job_id,
                    g_sd_ready, now, sd_mountable, wjob, cpc, bufs, rets, ub >>
    /\ UNCHANGED hvars

WorkerStamp ==
    /\ wpc = "stamp"
    /\ IF Live(wjob)
       THEN /\ heap' = [heap EXCEPT ![wjob].updated_ms = now]
            /\ UNCHANGED ub
       ELSE /\ ub' = ub \cup {"worker_use_after_free"}
            /\ UNCHANGED heap
    /\ wpc' = "freebuf"
    /\ UNCHANGED << g_spi, g_job_queue, queue, g_worker_task, g_jobs, g_next_job_id,
                    g_sd_ready, now, sd_mountable, wjob, cpc, bufs, effects, rets >>
    /\ UNCHANGED hvars

\* the buffer a freed job owned: what a stale read of job->buffer may yield
StaleBuffers(id) == { b \in DOMAIN bufs : b = id }

WorkerFreeBuffer ==
    /\ wpc = "freebuf"
    /\ IF Live(wjob)
       THEN /\ IF heap[wjob].buffer # NULL
               THEN /\ bufs' = FreeBuffer(bufs, heap[wjob].buffer, "worker")
                    /\ heap' = [heap EXCEPT ![wjob].buffer = NULL]
               ELSE UNCHANGED << bufs, heap >>
            /\ UNCHANGED ub
       ELSE /\ ub' = ub \cup {"worker_use_after_free"}
            /\ UNCHANGED heap
            /\ \/ UNCHANGED bufs
               \/ \E b \in StaleBuffers(wjob) : bufs' = FreeBuffer(bufs, b, "worker")
    /\ wpc' = PcAfterJob
    /\ UNCHANGED << g_spi, g_job_queue, queue, g_worker_task, g_jobs, g_next_job_id,
                    g_sd_ready, now, sd_mountable, wjob, cpc, effects, rets >>
    /\ UNCHANGED hvars

(***************************************************************************)
(* init_sd_for_portal: the portal thread calls sd_storage_ensure_ready,    *)
(* which runs ensure_sd_ready_internal on the calling thread.              *)
(***************************************************************************)
PortalEnsureReady ==
    /\ cpc = "idle"
    /\ g_spi
    /\ ~g_sd_ready
    /\ cpc' = "mount"
    /\ UNCHANGED << g_spi, g_job_queue, queue, g_worker_task, g_jobs, heap, g_next_job_id,
                    g_sd_ready, now, sd_mountable, wpc, wjob, bufs, effects, rets, ub >>
    /\ UNCHANGED hvars

PortalMountDone ==
    /\ cpc = "mount"
    /\ g_sd_ready' = (g_sd_ready \/ sd_mountable)
    /\ cpc' = "idle"
    /\ UNCHANGED << g_spi, g_job_queue, queue, g_worker_task, g_jobs, heap, g_next_job_id,
                    now, sd_mountable, wpc, wjob, bufs, effects, rets, ub >>
    /\ UNCHANGED hvars

(***************************************************************************)
(* Environment: the card is inserted or pulled, time passes.  Once the     *)
(* medium is mounted the handlers' outcomes are free, and the card is no   *)
(* longer followed.                                                        *)
(***************************************************************************)
CardChange ==
    /\ ~g_sd_ready
    /\ sd_mountable' = ~sd_mountable
    /\ UNCHANGED << g_spi, g_job_queue, queue, g_worker_task, g_jobs, heap, g_next_job_id,
                    g_sd_ready, now, wpc, wjob, cpc, bufs, effects, rets, ub >>
    /\ UNCHANGED hvars

Tick ==
    /\ now < MaxTicks * TickMs
    /\ now' = now + TickMs
    /\ UNCHANGED << g_spi, g_job_queue, queue, g_worker_task, g_jobs, heap, g_next_job_id,
                    g_sd_ready, sd_mountable, wpc, wjob, cpc, bufs, effects, rets, ub >>
    /\ UNCHANGED hvars

(***************************************************************************)
(* File names.  A name is the text  dir "/" ts "__" stem ext  with the     *)
(* parts it has: dir is "" for a name without separator, ts is NoStamp     *)
(* for a name without the "<timestamp>__" prefix and otherwise the epoch   *)
(* the sixteen characters YYYYMMDDTHHMMSSZ denote.  The empty string is    *)
(* the name with every part empty.  A name has a length (NameLen); the     *)
(* buffers that hold names (kMaxNameLen, RTC_IMAGE_NAME_MAX_LEN) take a    *)
(* name shorter than the buffer whole and cut a longer one (strlcpy).      *)
(***************************************************************************)
NoStamp == -1

NoName == [dir |-> "", ts |-> NoStamp, stem |-> "", ext |-> ""]

G4(dir, ts, stem) == [dir |-> dir, ts |-> ts, stem |-> stem, ext |-> ".g4"]

\* String::startsWith(prefix "/")
has_prefix(name, prefix) == name.dir = prefix

\* stems of 124 and 125 characters: with the suffix ".g4", 127 and 128
LongestStem == "nnnnnnnnnnnnnnnnnnnnnnnnnnnnnnnnnnnnnnnnnnnnnnnnnnnnnnnnnnnnnnnnnnnnnnnnnnnnnnnnnnnnnnnnnnnnnnnnnnnnnnnnnnnnnnnnnnnnnnnnnnnn"

TooLongStem == "nnnnnnnnnnnnnnnnnnnnnnnnnnnnnnnnnnnnnnnnnnnnnnnnnnnnnnnnnnnnnnnnnnnnnnnnnnnnnnnnnnnnnnnnnnnnnnnnnnnnnnnnnnnnnnnnnnnnnnnnnnnnn"

StemsInOrder == << "a", "b", "c", LongestStem, TooLongStem >>

\* a.compareTo(b) < 0 for two names: byte order of the texts.  The digits
\* of a timestamp sort before the letters of a stem.
StemLess(a, b) ==
    \E i \in DOMAIN StemsInOrder : \E j \in DOMAIN StemsInOrder :
        /\ i < j
        /\ StemsInOrder[i] = a
        /\ StemsInOrder[j] = b

DirLess(a, b) ==
    \E i \in 1 .. 6 : \E j \in 1 .. 6 :
        /\ i < j
        /\ << "all/permanent", "all/temporary", "perm", "queue-permanent",
              "queue-temporary", "temp" >>[i] = a
        /\ << "all/permanent", "all/temporary", "perm", "queue-permanent",
              "queue-temporary", "temp" >>[j] = b

NameLess(a, b) ==
    IF a.dir # b.dir THEN DirLess(a.dir, b.dir)
    ELSE IF a.ts # b.ts
         THEN IF a.ts = NoStamp THEN FALSE
              ELSE IF b.ts = NoStamp THEN TRUE
              ELSE a.ts < b.ts
    ELSE StemLess(a.stem, b.stem)

\* std::sort of a listing (a set of distinct names) with compareTo
RECURSIVE sort_names(_)
sort_names(S) ==
    IF S = {} THEN << >>
    ELSE LET first == CHOOSE x \in S : \A y \in S \ {x} : NameLess(x, y)
         IN  << first >> \o sort_names(S \ {first})

\* time_utils::parse_utc_timestamp: the text has to be a timestamp and its
\* epoch positive
parse_utc_timestamp(ts) == [ok |-> ts # NoStamp /\ ts > 0, epoch |-> ts]

(***************************************************************************)
(* The storage medium.  A path is a name and a suffix ("" or ".tmp"); a    *)
(* file's content is whose bytes it holds ("prev": what was there before,  *)
(* or the id of the job whose payload it is) and how many of the `of`      *)
(* bytes of that content are in the file.  SD.remove of an existing file   *)
(* succeeds.                                                               *)
(***************************************************************************)
PathOf(name) == << name, "" >>

Complete(content) == content.bytes = content.of

SD_exists(files, path) == path \in DOMAIN files

SD_remove(files, path) == [q \in DOMAIN files \ {path} |-> files[q]]

SD_write(files, path, content) == (path :> content) @@ files

SD_rename(files, from, to) ==
    (to :> files[from]) @@ [q \in DOMAIN files \ {from} |-> files[q]]

NoLocals == [fn |-> "none"]

NoTrace == [rendered |-> << >>, removed |-> {}, downloaded |-> << >>,
            written |-> {}, sets |-> 0, suspended |-> FALSE, paused0 |-> FALSE,
            requested |-> 0]

\* strlen(name): the directory and its separator, the stamp and its "__", the
\* stem, the suffix
StampLen == 18

HeadLen(name) ==
    Len(name.dir) + (IF name.dir = "" THEN 0 ELSE 1)
      + (IF name.ts = NoStamp THEN 0 ELSE StampLen)

NameLen(name) == HeadLen(name) + Len(name.stem) + Len(name.ext)

\* the first n characters of a text, all of it when it is shorter
FirstChars(text, n) ==
    IF n <= 0 THEN "" ELSE IF n >= Len(text) THEN text ELSE SubSeq(text, 1, n)

\* strlcpy(dst, name, size): at most size - 1 characters of the name are
\* stored.  The names used here have a directory and stamp shorter than that.
strlcpy(name, size) ==
    IF NameLen(name) < size THEN name
    ELSE LET room == size - 1 - HeadLen(name)
         IN  [name EXCEPT !.stem = FirstChars(name.stem, room),
                          !.ext = FirstChars(name.ext, room - Len(name.stem))]

(***************************************************************************)
(* rtc_state.cpp: the record kept in RTC memory.  Every accessor runs      *)
(* rtc_image_state_init first.  RtcPowerOn is the memory after a power     *)
(* loss: no magic tag.                                                     *)
(***************************************************************************)
kRtcImageStateMagic == 1381254962
RTC_IMAGE_NAME_MAX_LEN == 128

\* 0xFFFFFFFF, written as the integer congruent to it (see uint32_lt)
kRtcInvalidIndex == 0 - 1

rtc_image_state_reset ==
    [ magic |-> kRtcImageStateMagic, last_image_index |-> kRtcInvalidIndex,
      last_image_name |-> NoName,
      priority_image_name |-> NoName, last_perm_name |-> NoName,
      last_temp_name |-> NoName, last_was_temp |-> FALSE ]

RtcPowerOn == [rtc_image_state_reset EXCEPT !.magic = 0]

\* the accessors without the check of the magic tag
rtc_image_state_no_init(st) == st

rtc_image_state_init(st) ==
    IF st.magic # kRtcImageStateMagic THEN rtc_image_state_reset ELSE st

rtc_image_state_get_last_image_index(st) == rtc_image_state_init(st).last_image_index

rtc_image_state_set_last_image_index(st, index) ==
    [rtc_image_state_init(st) EXCEPT !.last_image_index = index]

rtc_image_state_get_last_image_name(st) == rtc_image_state_init(st).last_image_name

rtc_image_state_set_last_image_name(st, name) ==
    [rtc_image_state_init(st) EXCEPT
        !.last_image_name = strlcpy(name, RTC_IMAGE_NAME_MAX_LEN)]

rtc_image_state_get_last_perm_name(st) == rtc_image_state_init(st).last_perm_name

rtc_image_state_set_last_perm_name(st, name) ==
    [rtc_image_state_init(st) EXCEPT
        !.last_perm_name = strlcpy(name, RTC_IMAGE_NAME_MAX_LEN)]

rtc_image_state_get_last_temp_name(st) == rtc_image_state_init(st).last_temp_name

rtc_image_state_set_last_temp_name(st, name) ==
    [rtc_image_state_init(st) EXCEPT
        !.last_temp_name = strlcpy(name, RTC_IMAGE_NAME_MAX_LEN)]

rtc_image_state_get_last_was_temp(st) == rtc_image_state_init(st).last_was_temp

rtc_keep_last_was_temp(st, was_temp) == rtc_image_state_init(st)

rtc_image_state_set_last_was_temp(st, was_temp) ==
    [rtc_image_state_init(st) EXCEPT !.last_was_temp = was_temp]

\* the getter returns a pointer into the record: the text read through it
\* is the content of priority_image_name at the time of the read
rtc_image_state_get_priority_image_name(st) ==
    rtc_image_state_init(st).priority_image_name

rtc_image_state_set_priority_image_name(st, name) ==
    [rtc_image_state_init(st) EXCEPT
        !.priority_image_name = strlcpy(name, RTC_IMAGE_NAME_MAX_LEN)]

rtc_keep_priority_image_name(st) == rtc_image_state_init(st)

\* a clear that wipes the whole record
rtc_clear_image_state(st) == rtc_image_state_reset

rtc_image_state_clear_priority_image_name(st) ==
    [rtc_image_state_init(st) EXCEPT !.priority_image_name = NoName]

(***************************************************************************)
(* is_valid_g4_name: not empty, no "..", the ".g4" suffix, and no          *)
(* separator or one separator after a queue prefix.                        *)
(***************************************************************************)
\* the stems used here in which strchr finds a backslash, strstr finds ".."
StemsWithBackslash == { "a\\b" }

StemsWithDotDot == { "..", "..a" }

SeparatorAny(name) == TRUE

\* the directory part: no separator, or one separator after a queue prefix
SeparatorOk(name) ==
    \/ name.dir = ""
    \/ has_prefix(name, "queue-permanent")
    \/ has_prefix(name, "queue-temporary")

is_valid_g4_name(name) ==
    /\ ~(NameLen(name) = 0 \/ NameLen(name) > kMaxNameLen)
    /\ name.stem \notin StemsWithBackslash
    /\ name.stem \notin StemsWithDotDot
    /\ name.ext = ".g4"
    /\ SeparatorOk(name)

(***************************************************************************)
(* write_upload_to_sd, one action per access to the medium.  Positions of  *)
(* the handler: "idle" (not started), "mkdir", "rmtmp", "open", "write",   *)
(* "check", "rmtarget", "rename".                                          *)
(***************************************************************************)
TempPathSame(target) == target

\* temp_path = target_path + ".tmp"
TempPathOf(target) == << target[1], ".tmp" >>

\* the payload of job id, `size` bytes, of which `written` reached the file
Payload(id, written, size) == [data |-> id, bytes |-> written, of |-> size]

KeepTemp(files, temp) == files

\* SD.remove(temp_path) after a short write
DiscardTemp(files, temp) == SD_remove(files, temp)

\* the handler returns to worker_task, which sets job->success and job->state
HandlerReturn(job) ==
    /\ heap' = [heap EXCEPT ![wjob] = job]
    /\ effects' = effects \cup {wjob}
    /\ wpc' = "stamp"
    /\ hpc' = "idle"

UploadFailed(msg) == HandlerReturn(JobCompleted(heap[wjob], FALSE, msg))

UploadValidate ==
    /\ wpc = "handler"
    /\ hpc = "idle"
    /\ heap[wjob].type = "Upload"
    /\ loc' = [fn |-> "upload", name |-> req.name, size |-> req.size,
               target |-> PathOf(req.name), temp |-> TempPathOf(PathOf(req.name)),
               job |-> wjob, wrote |-> FALSE, written |-> 0,
               prior |-> IF SD_exists(sd_files, PathOf(req.name))
                         THEN << sd_files[PathOf(req.name)] >> ELSE << >>]
    /\ IF heap[wjob].buffer = NULL \/ req.size = 0
       THEN UploadFailed(heap[wjob].message)
       ELSE IF ~is_valid_g4_name(req.name)
       THEN UploadFailed("Invalid filename")
       ELSE /\ hpc' = "mkdir"
            /\ UNCHANGED << heap, effects, wpc >>
    /\ UNCHANGED << g_spi, g_job_queue, queue, g_worker_task, g_jobs, g_next_job_id,
                    g_sd_ready, now, sd_mountable, wjob, cpc, bufs, rets, ub >>
    /\ UNCHANGED << sd_files, sd_dirs, g_rtc_image_state, clock, azure, g_render_paused, req, cvars,
                    trace >>

UploadMkdir ==
    /\ wpc = "handler"
    /\ hpc = "mkdir"
    /\ loc.fn = "upload"
    /\ IF loc.name.dir = "" \/ loc.name.dir \in sd_dirs
       THEN /\ hpc' = "rmtmp"
            /\ UNCHANGED << sd_dirs, heap, effects, wpc >>
       ELSE \/ /\ sd_dirs' = sd_dirs \cup {loc.name.dir}
               /\ hpc' = "rmtmp"
               /\ UNCHANGED << heap, effects, wpc >>
            \/ /\ UploadFailed("Create dir failed")
               /\ UNCHANGED sd_dirs
    /\ UNCHANGED << g_spi, g_job_queue, queue, g_worker_task, g_jobs, g_next_job_id,
                    g_sd_ready, now, sd_mountable, wjob, cpc, bufs, rets, ub >>
    /\ UNCHANGED << sd_files, g_rtc_image_state, clock, azure, g_render_paused, req, cvars,
                    loc, trace >>

UploadRemoveStaleTemp ==
    /\ wpc = "handler"
    /\ hpc = "rmtmp"
    /\ loc.fn = "upload"
    /\ sd_files' = SD_remove(sd_files, loc.temp)
    /\ hpc' = "open"
    /\ UNCHANGED evars
    /\ UNCHANGED << sd_dirs, g_rtc_image_state, clock, azure, g_render_paused, req, cvars,
                    loc, trace >>

UploadOpen ==
    /\ wpc = "handler"
    /\ hpc = "open"
    /\ loc.fn = "upload"
    /\ \/ /\ sd_files' = SD_write(sd_files, loc.temp, Payload(wjob, 0, loc.size))
          /\ hpc' = "write"
          /\ UNCHANGED << heap, effects, wpc >>
       \/ /\ UploadFailed("Open failed")
          /\ UNCHANGED sd_files
    /\ UNCHANGED << g_spi, g_job_queue, queue, g_worker_task, g_jobs, g_next_job_id,
                    g_sd_ready, now, sd_mountable, wjob, cpc, bufs, rets, ub >>
    /\ UNCHANGED << sd_dirs, g_rtc_image_state, clock, azure, g_render_paused, req, cvars,
                    loc, trace >>

\* file.write returns how many of the bytes it wrote
UploadWrite ==
    /\ wpc = "handler"
    /\ hpc = "write"
    /\ loc.fn = "upload"
    /\ \E written \in 0 .. loc.size :
         /\ sd_files' = SD_write(sd_files, loc.temp, Payload(wjob, written, loc.size))
         /\ loc' = [loc EXCEPT !.wrote = TRUE, !.written = written]
    /\ hpc' = "check"
    /\ UNCHANGED evars
    /\ UNCHANGED << sd_dirs, g_rtc_image_state, clock, azure, g_render_paused, req, cvars, trace >>

UploadCheck ==
    /\ wpc = "handler"
    /\ hpc = "check"
    /\ loc.fn = "upload"
    /\ IF loc.written # loc.size
       THEN /\ sd_files' = DiscardTemp(sd_files, loc.temp)
            /\ HandlerReturn(JobCompleted([heap[wjob] EXCEPT !.bytes = loc.written],
                                          FALSE, "Write failed"))
       ELSE /\ heap' = [heap EXCEPT ![wjob].bytes = loc.written]
            /\ hpc' = "rmtarget"
            /\ UNCHANGED << sd_files, effects, wpc >>
    /\ UNCHANGED << g_spi, g_job_queue, queue, g_worker_task, g_jobs, g_next_job_id,
                    g_sd_ready, now, sd_mountable, wjob, cpc, bufs, rets, ub >>
    /\ UNCHANGED << sd_dirs, g_rtc_image_state, clock, azure, g_render_paused, req, cvars,
                    loc, trace >>

UploadRemoveTarget ==
    /\ wpc = "handler"
    /\ hpc = "rmtarget"
    /\ loc.fn = "upload"
    /\ sd_files' = SD_remove(sd_files, loc.target)
    /\ hpc' = "rename"
    /\ UNCHANGED evars
    /\ UNCHANGED << sd_dirs, g_rtc_image_state, clock, azure, g_render_paused, req, cvars,
                    loc, trace >>

UploadRename ==
    /\ wpc = "handler"
    /\ hpc = "rename"
    /\ loc.fn = "upload"
    /\ \/ /\ sd_files' = SD_rename(sd_files, loc.temp, loc.target)
          /\ HandlerReturn(JobCompleted(heap[wjob], TRUE, heap[wjob].message))
       \/ /\ sd_files' = SD_remove(sd_files, loc.temp)
          /\ UploadFailed("Rename failed")
    /\ UNCHANGED << g_spi, g_job_queue, queue, g_worker_task, g_jobs, g_next_job_id,
                    g_sd_ready, now, sd_mountable, wjob, cpc, bufs, rets, ub >>
    /\ UNCHANGED << sd_dirs, g_rtc_image_state, clock, azure, g_render_paused, req, cvars,
                    loc, trace >>

write_upload_to_sd ==
    \/ UploadValidate
    \/ UploadMkdir
    \/ UploadRemoveStaleTemp
    \/ UploadOpen
    \/ UploadWrite
    \/ UploadCheck
    \/ UploadRemoveTarget
    \/ UploadRename

(***************************************************************************)
(* worker_task, case Delete and case Display, one action per access to     *)
(* the medium or the panel.  Positions: "exists", "remove", "init",        *)
(* "show".                                                                 *)
(***************************************************************************)
NameJobStart(fn) ==
    loc' = [fn |-> fn, name |-> req.name, path |-> PathOf(req.name), job |-> wjob]

NameJobFailed(msg) == HandlerReturn(JobCompleted(heap[wjob], FALSE, msg))

NameJobDone == HandlerReturn(JobCompleted(heap[wjob], TRUE, heap[wjob].message))

DeleteValidate ==
    /\ wpc = "handler"
    /\ hpc = "idle"
    /\ heap[wjob].type = "Delete"
    /\ NameJobStart("delete")
    /\ IF ~is_valid_g4_name(req.name)
       THEN NameJobFailed("Invalid name")
       ELSE /\ hpc' = "exists"
            /\ UNCHANGED << heap, effects, wpc >>
    /\ UNCHANGED << g_spi, g_job_queue, queue, g_worker_task, g_jobs, g_next_job_id,
                    g_sd_ready, now, sd_mountable, wjob, cpc, bufs, rets, ub >>
    /\ UNCHANGED << sd_files, sd_dirs, g_rtc_image_state, clock, azure, g_render_paused,
                    req, cvars, trace >>

DeleteExists ==
    /\ wpc = "handler"
    /\ hpc = "exists"
    /\ loc.fn = "delete"
    /\ IF ~SD_exists(sd_files, loc.path)
       THEN NameJobFailed("Not found")
       ELSE /\ hpc' = "remove"
            /\ UNCHANGED << heap, effects, wpc >>
    /\ UNCHANGED << g_spi, g_job_queue, queue, g_worker_task, g_jobs, g_next_job_id,
                    g_sd_ready, now, sd_mountable, wjob, cpc, bufs, rets, ub >>
    /\ UNCHANGED << sd_files, sd_dirs, g_rtc_image_state, clock, azure, g_render_paused,
                    req, cvars, loc, trace >>

DeleteRemove ==
    /\ wpc = "handler"
    /\ hpc = "remove"
    /\ loc.fn = "delete"
    /\ \/ /\ sd_files' = SD_remove(sd_files, loc.path)
          /\ trace' = [trace EXCEPT !.removed = @ \cup {loc.path}]
          /\ NameJobDone
       \/ /\ NameJobFailed("Delete failed")
          /\ UNCHANGED << sd_files, trace >>
    /\ UNCHANGED << g_spi, g_job_queue, queue, g_worker_task, g_jobs, g_next_job_id,
                    g_sd_ready, now, sd_mountable, wjob, cpc, bufs, rets, ub >>
    /\ UNCHANGED << sd_dirs, g_rtc_image_state, clock, azure, g_render_paused,
                    req, cvars, loc >>

DisplayValidate ==
    /\ wpc = "handler"
    /\ hpc = "idle"
    /\ heap[wjob].type = "Display"
    /\ NameJobStart("display")
    /\ IF ~is_valid_g4_name(req.name)
       THEN NameJobFailed("Invalid name")
       ELSE /\ hpc' = "exists"
            /\ UNCHANGED << heap, effects, wpc >>
    /\ UNCHANGED << g_spi, g_job_queue, queue, g_worker_task, g_jobs, g_next_job_id,
                    g_sd_ready, now, sd_mountable, wjob, cpc, bufs, rets, ub >>
    /\ UNCHANGED << sd_files, sd_dirs, g_rtc_image_state, clock, azure, g_render_paused,
                    req, cvars, trace >>

DisplayExists ==
    /\ wpc = "handler"
    /\ hpc = "exists"
    /\ loc.fn = "display"
    /\ IF ~SD_exists(sd_files, loc.path)
       THEN NameJobFailed("Not found")
       ELSE /\ hpc' = "init"
            /\ UNCHANGED << heap, effects, wpc >>
    /\ UNCHANGED << g_spi, g_job_queue, queue, g_worker_task, g_jobs, g_next_job_id,
                    g_sd_ready, now, sd_mountable, wjob, cpc, bufs, rets, ub >>
    /\ UNCHANGED << sd_files, sd_dirs, g_rtc_image_state, clock, azure, g_render_paused,
                    req, cvars, loc, trace >>

\* it8951_renderer_init
DisplayInit ==
    /\ wpc = "handler"
    /\ hpc = "init"
    /\ loc.fn = "display"
    /\ \/ NameJobFailed("Render init failed")
       \/ /\ hpc' = "show"
          /\ UNCHANGED << heap, effects, wpc >>
    /\ UNCHANGED << g_spi, g_job_queue, queue, g_worker_task, g_jobs, g_next_job_id,
                    g_sd_ready, now, sd_mountable, wjob, cpc, bufs, rets, ub >>
    /\ UNCHANGED << sd_files, sd_dirs, g_rtc_image_state, clock, azure, g_render_paused,
                    req, cvars, loc, trace >>

\* it8951_render_g4(path) opens and reads the file
DisplayShow ==
    /\ wpc = "handler"
    /\ hpc = "show"
    /\ loc.fn = "display"
    /\ \E ok \in BOOLEAN :
         /\ trace' = [trace EXCEPT !.rendered =
                         Append(@, [job |-> wjob, path |-> loc.path,
                                    via |-> "display", ok |-> ok])]
         /\ IF ok THEN NameJobDone ELSE NameJobFailed("Render failed")
    /\ UNCHANGED << g_spi, g_job_queue, queue, g_worker_task, g_jobs, g_next_job_id,
                    g_sd_ready, now, sd_mountable, wjob, cpc, bufs, rets, ub >>
    /\ UNCHANGED << sd_files, sd_dirs, g_rtc_image_state, clock, azure, g_render_paused,
                    req, cvars, loc >>

handle_delete == DeleteValidate \/ DeleteExists \/ DeleteRemove

handle_display == DisplayValidate \/ DisplayExists \/ DisplayInit \/ DisplayShow

(***************************************************************************)
(* handle_sync_from_azure.  azure.blobs is the content of the container,   *)
(* req.sas the SAS URL the caller passed: "" (none), "malformed" (no       *)
(* query part) or "ok".  Messages that carry numbers are records.          *)
(***************************************************************************)
kValidTimeThreshold == 1609459200

\* time_utils::is_time_valid
is_time_valid(t) == t >= kValidTimeThreshold

\* azure_blob_parse_sas_url
azure_blob_parse_sas_url(url) == url = "ok"

\* parse_all_temp_expiry
parse_all_temp_expiry(name) ==
    IF has_prefix(name, "all/temporary") /\ name.ts # NoStamp
    THEN parse_utc_timestamp(name.ts)
    ELSE [ok |-> FALSE, epoch |-> 0]

\* derive_queue_name_from_all_blob
derive_queue_name_from_all_blob(all_name) ==
    IF has_prefix(all_name, "all/temporary")
    THEN [ok |-> TRUE, name |-> [all_name EXCEPT !.dir = "queue-temporary"]]
    ELSE IF has_prefix(all_name, "all/permanent")
    THEN [ok |-> TRUE, name |-> [all_name EXCEPT !.dir = "queue-permanent"]]
    ELSE [ok |-> FALSE, name |-> NoName]

\* collect_g4_names: the ".g4" files of the two queue directories whose
\* name with the directory has at most kMaxNameLen characters
ManagedPaths(files) ==
    { path \in DOMAIN files :
        /\ path[2] = ""
        /\ path[1].ext = ".g4"
        /\ path[1].dir \in {"queue-permanent", "queue-temporary"}
        /\ NameLen(path[1]) <= kMaxNameLen }

delete_no_g4_files(files) == files

\* delete_all_g4_files
delete_all_g4_files(files) ==
    [path \in DOMAIN files \ ManagedPaths(files) |-> files[path]]

\* list_all_g4_blobs: every page of the listing, the ".g4" names, sorted
list_all_g4_blobs(blobs, prefix) ==
    sort_names({ b \in blobs : has_prefix(b, prefix) /\ b.ext = ".g4" })

\* std::lower_bound on seq[lo .. hi-1]
RECURSIVE lower_bound(_, _, _, _)
lower_bound(seq, x, lo, hi) ==
    IF lo >= hi THEN lo
    ELSE LET mid == (lo + hi) \div 2
         IN  IF NameLess(seq[mid], x)
             THEN lower_bound(seq, x, mid + 1, hi)
             ELSE lower_bound(seq, x, lo, mid)

\* std::binary_search
binary_search(seq, x) ==
    LET i == lower_bound(seq, x, 1, Len(seq) + 1)
    IN  i <= Len(seq) /\ ~NameLess(x, seq[i])

is_queued_never(queue_names, name) == FALSE

is_queued(queue_names, name) == binary_search(queue_names, name)

\* the lambda add_target: the targets (none or one) an archive entry adds
add_target(all_name, is_temp, queue_names, t) ==
    LET q == derive_queue_name_from_all_blob(all_name)
        x == parse_all_temp_expiry(all_name)
    IN  IF ~q.ok THEN << >>
        ELSE IF is_queued(queue_names, q.name) THEN << >>
        ELSE IF is_temp /\ x.ok /\ t >= x.epoch THEN << >>
        ELSE << [blob_name |-> all_name, queue_name |-> q.name, is_temp |-> is_temp] >>

RECURSIVE add_targets(_, _, _, _)
add_targets(all_blobs, is_temp, queue_names, t) ==
    IF all_blobs = << >> THEN << >>
    ELSE add_target(Head(all_blobs), is_temp, queue_names, t)
         \o add_targets(Tail(all_blobs), is_temp, queue_names, t)

\* the listings of the four prefixes and the targets built from them
SyncTargets(blobs, t) ==
    LET queue_names == sort_names({ b \in blobs :
                           /\ b.ext = ".g4"
                           /\ \/ has_prefix(b, "queue-temporary")
                              \/ has_prefix(b, "queue-permanent") })
    IN  add_targets(list_all_g4_blobs(blobs, "all/temporary"), TRUE, queue_names, t)
        \o add_targets(list_all_g4_blobs(blobs, "all/permanent"), FALSE, queue_names, t)

\* an early return after the routine paused rendering
SyncAbortStillPaused(msg) ==
    /\ UNCHANGED g_render_paused
    /\ HandlerReturn(JobCompleted(heap[wjob], FALSE, msg))

SyncAbort(msg) ==
    /\ g_render_paused' = loc.was_paused
    /\ HandlerReturn(JobCompleted(heap[wjob], FALSE, msg))

SyncStart ==
    /\ wpc = "handler"
    /\ hpc = "idle"
    /\ heap[wjob].type = "SyncFromAzure"
    /\ loc' = [fn |-> "sync", job |-> wjob, files0 |-> sd_files,
               was_paused |-> g_render_paused, targets |-> << >>, idx |-> 0,
               ok_count |-> 0, fail_count |-> 0]
    /\ IF req.sas = ""
       THEN /\ HandlerReturn(JobCompleted(heap[wjob], FALSE, "Missing SAS URL"))
            /\ UNCHANGED << g_render_paused, trace >>
       ELSE IF ~azure.wifi
       THEN /\ HandlerReturn(JobCompleted(heap[wjob], FALSE, "WiFi not connected"))
            /\ UNCHANGED << g_render_paused, trace >>
       ELSE IF ~azure_blob_parse_sas_url(req.sas)
       THEN /\ HandlerReturn(JobCompleted(heap[wjob], FALSE, "Invalid SAS URL"))
            /\ UNCHANGED << g_render_paused, trace >>
       ELSE /\ g_render_paused' = TRUE
            /\ trace' = [trace EXCEPT !.suspended = TRUE, !.paused0 = g_render_paused]
            /\ heap' = [heap EXCEPT ![wjob] = job_set_message(@, "Deleting SD files...")]
            /\ hpc' = "delete"
            /\ UNCHANGED << effects, wpc >>
    /\ UNCHANGED << g_spi, g_job_queue, queue, g_worker_task, g_jobs, g_next_job_id,
                    g_sd_ready, now, sd_mountable, wjob, cpc, bufs, rets, ub >>
    /\ UNCHANGED << sd_files, sd_dirs, g_rtc_image_state, clock, azure, req, cvars >>

SyncDelete ==
    /\ wpc = "handler"
    /\ hpc = "delete"
    /\ loc.fn = "sync"
    /\ \/ /\ SyncAbort("SD unavailable")
          /\ UNCHANGED << sd_files, trace >>
       \/ /\ sd_files' = delete_all_g4_files(sd_files)
          /\ trace' = [trace EXCEPT !.removed = @ \cup ManagedPaths(sd_files)]
          /\ heap' = [heap EXCEPT ![wjob] = job_set_message(@,
                        [text |-> "Deleted files",
                         n |-> Cardinality(ManagedPaths(sd_files))])]
          /\ hpc' = "time"
          /\ UNCHANGED << g_render_paused, effects, wpc >>
    /\ UNCHANGED << g_spi, g_job_queue, queue, g_worker_task, g_jobs, g_next_job_id,
                    g_sd_ready, now, sd_mountable, wjob, cpc, bufs, rets, ub >>
    /\ UNCHANGED << sd_dirs, g_rtc_image_state, clock, azure, req, cvars, loc >>

SyncTimeCheck ==
    /\ wpc = "handler"
    /\ hpc = "time"
    /\ loc.fn = "sync"
    /\ IF ~is_time_valid(clock)
       THEN SyncAbort("Time not synced")
       ELSE /\ hpc' = "list"
            /\ UNCHANGED << g_render_paused, heap, effects, wpc >>
    /\ UNCHANGED << g_spi, g_job_queue, queue, g_worker_task, g_jobs, g_next_job_id,
                    g_sd_ready, now, sd_mountable, wjob, cpc, bufs, rets, ub >>
    /\ UNCHANGED << sd_files, sd_dirs, g_rtc_image_state, clock, azure, req, cvars, loc, trace >>

SyncList ==
    /\ wpc = "handler"
    /\ hpc = "list"
    /\ loc.fn = "sync"
    /\ \/ /\ SyncAbort("Azure list failed")
          /\ UNCHANGED loc
       \/ /\ loc' = [loc EXCEPT !.targets = SyncTargets(azure.blobs, clock)]
          /\ heap' = [heap EXCEPT ![wjob] =
                        [job_set_message(@, "Listing Azure all/permanent/...")
                            EXCEPT !.names = << >>]]
          /\ hpc' = "download"
          /\ UNCHANGED << g_render_paused, effects, wpc >>
    /\ UNCHANGED << g_spi, g_job_queue, queue, g_worker_task, g_jobs, g_next_job_id,
                    g_sd_ready, now, sd_mountable, wjob, cpc, bufs, rets, ub >>
    /\ UNCHANGED << sd_files, sd_dirs, g_rtc_image_state, clock, azure, req, cvars, trace >>

\* the lambda download_and_write on the next target: the download, then
\* write_upload_to_sd under the queue name
SyncDownload ==
    /\ wpc = "handler"
    /\ hpc = "download"
    /\ loc.fn = "sync"
    /\ loc.idx < Len(loc.targets)
    /\ LET target == loc.targets[loc.idx + 1] IN
       /\ \/ \* the download fails
             /\ loc' = [loc EXCEPT !.idx = @ + 1, !.fail_count = @ + 1]
             /\ heap' = [heap EXCEPT ![wjob].names = Append(@, target.blob_name),
                                     ![wjob].message = [text |-> "Downloading",
                                         idx |-> loc.idx + 1, total |-> Len(loc.targets)]]
             /\ trace' = [trace EXCEPT !.downloaded = Append(@, target.blob_name)]
             /\ UNCHANGED sd_files
          \/ \* the write fails
             /\ loc' = [loc EXCEPT !.idx = @ + 1, !.fail_count = @ + 1]
             /\ heap' = [heap EXCEPT ![wjob].names = Append(@, target.queue_name),
                                     ![wjob].message = "Write failed"]
             /\ trace' = [trace EXCEPT !.downloaded = Append(@, target.blob_name)]
             /\ UNCHANGED sd_files
          \/ \* the file is committed
             /\ is_valid_g4_name(target.queue_name)
             /\ loc' = [loc EXCEPT !.idx = @ + 1, !.ok_count = @ + 1]
             /\ heap' = [heap EXCEPT ![wjob].message = [text |-> "Downloading",
                                         idx |-> loc.idx + 1, total |-> Len(loc.targets)]]
             /\ sd_files' = SD_write(sd_files, PathOf(target.queue_name),
                                     Payload(wjob, MaxPayload, MaxPayload))
             /\ trace' = [trace EXCEPT !.downloaded = Append(@, target.blob_name),
                                       !.written = @ \cup {PathOf(target.queue_name)}]
    /\ UNCHANGED << g_spi, g_job_queue, queue, g_worker_task, g_jobs, g_next_job_id,
                    g_sd_ready, now, sd_mountable, wpc, wjob, cpc, bufs, effects,
                    rets, ub >>
    /\ UNCHANGED << sd_dirs, g_rtc_image_state, clock, azure, g_render_paused, req, cvars, hpc >>

SyncResultAlwaysTrue(fail_count) == TRUE

\* return fail_count == 0
SyncResult(fail_count) == fail_count = 0

SyncFinish ==
    /\ wpc = "handler"
    /\ hpc = "download"
    /\ loc.fn = "sync"
    /\ loc.idx = Len(loc.targets)
    /\ g_render_paused' = loc.was_paused
    /\ HandlerReturn([job_set_message(heap[wjob],
                         [text |-> "Synced", ok |-> loc.ok_count,
                          failed |-> loc.fail_count])
                        EXCEPT !.success = SyncResult(loc.fail_count),
                               !.state = IF SyncResult(loc.fail_count)
                                         THEN "Done" ELSE "Error"])
    /\ UNCHANGED << g_spi, g_job_queue, queue, g_worker_task, g_jobs, g_next_job_id,
                    g_sd_ready, now, sd_mountable, wjob, cpc, bufs, rets, ub >>
    /\ UNCHANGED << sd_files, sd_dirs, g_rtc_image_state, clock, azure, req, cvars, loc, trace >>

handle_sync_from_azure ==
    \/ SyncStart
    \/ SyncDelete
    \/ SyncTimeCheck
    \/ SyncList
    \/ SyncDownload
    \/ SyncFinish

\* web_portal_render_control_api.cpp: the portal's pause and resume requests
handlePostRenderPause ==
    /\ g_render_paused' = TRUE
    /\ UNCHANGED evars
    /\ UNCHANGED << sd_files, sd_dirs, g_rtc_image_state, clock, azure, req, cvars, hpc, loc,
                    trace >>

handlePostRenderResume ==
    /\ g_render_paused' = FALSE
    /\ UNCHANGED evars
    /\ UNCHANGED << sd_files, sd_dirs, g_rtc_image_state, clock, azure, req, cvars, hpc, loc,
                    trace >>

\* sd_storage_get_job_names
sd_storage_get_job_names(tbl, h, id) ==
    LET job == find_job(tbl, h, id)
    IN  IF job = NULL THEN [ok |-> FALSE, names |-> << >>]
        ELSE IF h[job].type # "List" /\ h[job].type # "SyncFromAzure"
        THEN [ok |-> FALSE, names |-> << >>]
        ELSE IF h[job].state # "Done" THEN [ok |-> FALSE, names |-> << >>]
        ELSE [ok |-> TRUE, names |-> h[job].names]

(***************************************************************************)
(* image_render_service.cpp                                                *)
(***************************************************************************)
\* list_g4_names_in_dir: the ".g4" files of a directory, with the prefix
ListedNames(files, dir) ==
    { path[1] : path \in { q \in DOMAIN files :
                             q[2] = "" /\ q[1].dir = dir /\ q[1].ext = ".g4" } }

\* parse_temp_expiry
parse_temp_expiry(name) ==
    IF has_prefix(name, "temp") /\ name.ts # NoStamp
    THEN parse_utc_timestamp(name.ts)
    ELSE [ok |-> FALSE, epoch |-> 0]

\* the test of build_temp_candidates on one name
IsExpired(name, t) == parse_temp_expiry(name).ok /\ parse_temp_expiry(name).epoch <= t

RECURSIVE KeepNames(_, _, _)
KeepNames(names, allow_cleanup, t) ==
    IF names = << >> THEN << >>
    ELSE IF allow_cleanup /\ IsExpired(Head(names), t)
    THEN KeepNames(Tail(names), allow_cleanup, t)
    ELSE << Head(names) >> \o KeepNames(Tail(names), allow_cleanup, t)

\* build_temp_candidates: the candidates and the names it removes
build_temp_candidates(names, allow_cleanup, t) ==
    [ out |-> KeepNames(names, allow_cleanup, t),
      removed |-> { names[i] : i \in { j \in 1 .. Len(names) :
                                         allow_cleanup /\ IsExpired(names[j], t) } } ]

CanCleanupAlways(t) == TRUE

CanCleanupNever(t) == FALSE

\* can_cleanup = is_time_valid()
CanCleanup(t) == t >= kValidTimeThreshold

\* the position (from 1) of the first entry equal to last_name, or 0
FirstIndexOf(names, last_name) ==
    IF \E i \in 1 .. Len(names) : names[i] = last_name
    THEN CHOOSE i \in 1 .. Len(names) :
            /\ names[i] = last_name
            /\ \A j \in 1 .. (i - 1) : names[j] # last_name
    ELSE 0

pick_sequential_no_wrap(names, last_name) ==
    LET i == FirstIndexOf(names, last_name)
    IN  IF last_name # NoName /\ i > 0
        THEN names[IF i < Len(names) THEN i + 1 ELSE Len(names)]
        ELSE names[1]

\* pick_sequential_from_list on a non-empty list
pick_sequential_from_list(names, last_name) ==
    LET i == FirstIndexOf(names, last_name)
    IN  IF last_name # NoName /\ i > 0 THEN names[(i % Len(names)) + 1]
        ELSE names[1]

\* select_from_list: the names it may return; none if it returns false
select_from_list(names, mode, last_name) ==
    IF names = << >> THEN {}
    ELSE IF mode = "Random" THEN Range(names)
    ELSE { pick_sequential_from_list(names, last_name) }

\* lines 253-289: the collection and the name image_render_service_render_next
\* may select
Selections(perm_names, temp_candidates, mode, st) ==
    LET has_temp == temp_candidates # << >>
        has_perm == perm_names # << >>
        choose_temp == IF has_temp /\ has_perm
                       THEN ~rtc_image_state_get_last_was_temp(st)
                       ELSE has_temp
        from_temp == { [name |-> n, is_temp |-> TRUE] :
                         n \in select_from_list(temp_candidates, mode,
                                    rtc_image_state_get_last_temp_name(st)) }
        from_perm == { [name |-> n, is_temp |-> FALSE] :
                         n \in select_from_list(perm_names, mode,
                                    rtc_image_state_get_last_perm_name(st)) }
    IN  IF ~has_temp /\ ~has_perm THEN {}
        ELSE IF choose_temp /\ has_temp /\ from_temp # {} THEN from_temp
        ELSE IF from_perm # {} THEN from_perm
        ELSE IF has_temp THEN from_temp
        ELSE {}

\* what the priority branch and the selection persist (lines 210-219, 296-304)
PersistSelection(st, mode, name, is_temp) ==
    LET s1 == IF mode = "Sequential"
              THEN rtc_image_state_set_last_image_name(st, name) ELSE st
        s2 == IF is_temp THEN rtc_image_state_set_last_temp_name(s1, name)
              ELSE rtc_image_state_set_last_perm_name(s1, name)
    IN  rtc_image_state_set_last_was_temp(s2, is_temp)

\* what the accessors report of the last image, the cursors and the bit
Cursors(st) ==
    [ last_image_name |-> rtc_image_state_get_last_image_name(st),
      last_perm_name |-> rtc_image_state_get_last_perm_name(st),
      last_temp_name |-> rtc_image_state_get_last_temp_name(st),
      last_was_temp |-> rtc_image_state_get_last_was_temp(st) ]

\* handle_render_next returns false
RenderFailed == HandlerReturn(JobCompleted(heap[wjob], FALSE, "Render failed"))

RenderDone == HandlerReturn(JobCompleted(heap[wjob], TRUE, heap[wjob].message))

\* render_g4_path: the attempt is recorded, the display is not modelled
RenderAttempt(path, via, ok) ==
    trace' = [trace EXCEPT !.rendered =
                 Append(@, [job |-> wjob, path |-> path, via |-> via, ok |-> ok])]

RenderReadPriority ==
    /\ wpc = "handler"
    /\ hpc = "idle"
    /\ heap[wjob].type = "RenderNext"
    /\ g_rtc_image_state' = rtc_image_state_init(g_rtc_image_state)
    /\ LET priority_name == rtc_image_state_get_priority_image_name(g_rtc_image_state) IN
       /\ loc' = [fn |-> "render", job |-> wjob, mode |-> req.mode,
                  prio_read |-> priority_name, priority_path |-> PathOf(priority_name),
                  prio_exists |-> FALSE, via |-> "none", pruned |-> FALSE,
                  sets |-> trace.sets, cursors0 |-> Cursors(g_rtc_image_state),
                  perm_names |-> << >>, temp_names |-> << >>,
                  temp_candidates |-> << >>, selected_name |-> NoName,
                  selected_is_temp |-> FALSE,
                  was_temp |-> rtc_image_state_get_last_was_temp(g_rtc_image_state)]
       /\ hpc' = IF priority_name # NoName THEN "clear" ELSE "list"
    /\ UNCHANGED evars
    /\ UNCHANGED << sd_files, sd_dirs, clock, azure, g_render_paused, req, cvars, trace >>

RenderClearPriority ==
    /\ wpc = "handler"
    /\ hpc = "clear"
    /\ loc.fn = "render"
    /\ g_rtc_image_state' = rtc_image_state_clear_priority_image_name(g_rtc_image_state)
    /\ IF SD_exists(sd_files, loc.priority_path)
       THEN /\ loc' = [loc EXCEPT !.prio_exists = TRUE, !.via = "priority",
                                  !.sets = trace.sets]
            /\ hpc' = "prio_render"
       ELSE /\ loc' = [loc EXCEPT !.sets = trace.sets]
            /\ hpc' = "list"
    /\ UNCHANGED evars
    /\ UNCHANGED << sd_files, sd_dirs, clock, azure, g_render_paused, req, cvars, trace >>

RenderPriority ==
    /\ wpc = "handler"
    /\ hpc = "prio_render"
    /\ loc.fn = "render"
    /\ \E ok \in BOOLEAN :
         /\ RenderAttempt(loc.priority_path, "priority", ok)
         /\ IF ok
            THEN /\ hpc' = "prio_persist"
                 /\ UNCHANGED << heap, effects, wpc >>
            ELSE RenderFailed
    /\ UNCHANGED << g_spi, g_job_queue, queue, g_worker_task, g_jobs, g_next_job_id,
                    g_sd_ready, now, sd_mountable, wjob, cpc, bufs, rets, ub >>
    /\ UNCHANGED << sd_files, sd_dirs, g_rtc_image_state, clock, azure, g_render_paused,
                    req, cvars, loc >>

\* lines 210-220: priority_name still points into the record
RenderPriorityPersist ==
    /\ wpc = "handler"
    /\ hpc = "prio_persist"
    /\ loc.fn = "render"
    /\ LET priority_name == rtc_image_state_get_priority_image_name(g_rtc_image_state) IN
       g_rtc_image_state' = PersistSelection(g_rtc_image_state, loc.mode, priority_name,
                                             has_prefix(priority_name, "temp"))
    /\ RenderDone
    /\ UNCHANGED << g_spi, g_job_queue, queue, g_worker_task, g_jobs, g_next_job_id,
                    g_sd_ready, now, sd_mountable, wjob, cpc, bufs, rets, ub >>
    /\ UNCHANGED << sd_files, sd_dirs, clock, azure, g_render_paused, req, cvars, loc, trace >>

RenderList ==
    /\ wpc = "handler"
    /\ hpc = "list"
    /\ loc.fn = "render"
    /\ \/ /\ {"perm", "temp"} \cap sd_dirs # {}
          /\ RenderFailed
          /\ UNCHANGED loc
       \/ /\ loc' = [loc EXCEPT !.via = "normal",
                                !.perm_names = sort_names(ListedNames(sd_files, "perm")),
                                !.temp_names = sort_names(ListedNames(sd_files, "temp"))]
          /\ hpc' = "prune"
          /\ UNCHANGED << heap, effects, wpc >>
    /\ UNCHANGED << g_spi, g_job_queue, queue, g_worker_task, g_jobs, g_next_job_id,
                    g_sd_ready, now, sd_mountable, wjob, cpc, bufs, rets, ub >>
    /\ UNCHANGED << sd_files, sd_dirs, g_rtc_image_state, clock, azure, g_render_paused,
                    req, cvars, trace >>

\* lines 238-246: can_cleanup, now, build_temp_candidates
RenderPrune ==
    /\ wpc = "handler"
    /\ hpc = "prune"
    /\ loc.fn = "render"
    /\ LET can_cleanup == CanCleanup(clock)
           t == IF can_cleanup THEN clock ELSE 0
           b == build_temp_candidates(loc.temp_names, can_cleanup, t)
           gone == { PathOf(n) : n \in b.removed } \cap DOMAIN sd_files
       IN  /\ sd_files' = [path \in DOMAIN sd_files \ gone |-> sd_files[path]]
           /\ trace' = [trace EXCEPT !.removed = @ \cup gone]
           /\ loc' = [loc EXCEPT !.temp_candidates = b.out, !.pruned = TRUE]
    /\ hpc' = "select"
    /\ UNCHANGED evars
    /\ UNCHANGED << sd_dirs, g_rtc_image_state, clock, azure, g_render_paused, req, cvars >>

RenderSelect ==
    /\ wpc = "handler"
    /\ hpc = "select"
    /\ loc.fn = "render"
    /\ LET S == Selections(loc.perm_names, loc.temp_candidates, loc.mode,
                           g_rtc_image_state) IN
       IF S = {}
       THEN /\ RenderFailed
            /\ UNCHANGED << loc, g_rtc_image_state >>
       ELSE /\ \E s \in S :
                 loc' = [loc EXCEPT !.selected_name = s.name,
                                    !.selected_is_temp = s.is_temp,
                                    !.was_temp =
                                       rtc_image_state_get_last_was_temp(g_rtc_image_state)]
            /\ g_rtc_image_state' = rtc_image_state_init(g_rtc_image_state)
            /\ hpc' = "render"
            /\ UNCHANGED << heap, effects, wpc >>
    /\ UNCHANGED << g_spi, g_job_queue, queue, g_worker_task, g_jobs, g_next_job_id,
                    g_sd_ready, now, sd_mountable, wjob, cpc, bufs, rets, ub >>
    /\ UNCHANGED << sd_files, sd_dirs, clock, azure, g_render_paused, req, cvars, trace >>

RenderSelected ==
    /\ wpc = "handler"
    /\ hpc = "render"
    /\ loc.fn = "render"
    /\ \E ok \in BOOLEAN :
         /\ RenderAttempt(PathOf(loc.selected_name), "normal", ok)
         /\ IF ok
            THEN /\ hpc' = "persist"
                 /\ UNCHANGED << heap, effects, wpc >>
            ELSE RenderFailed
    /\ UNCHANGED << g_spi, g_job_queue, queue, g_worker_task, g_jobs, g_next_job_id,
                    g_sd_ready, now, sd_mountable, wjob, cpc, bufs, rets, ub >>
    /\ UNCHANGED << sd_files, sd_dirs, g_rtc_image_state, clock, azure, g_render_paused,
                    req, cvars, loc >>

RenderPersist ==
    /\ wpc = "handler"
    /\ hpc = "persist"
    /\ loc.fn = "render"
    /\ g_rtc_image_state' = PersistSelection(g_rtc_image_state, loc.mode,
                                             loc.selected_name, loc.selected_is_temp)
    /\ RenderDone
    /\ UNCHANGED << g_spi, g_job_queue, queue, g_worker_task, g_jobs, g_next_job_id,
                    g_sd_ready, now, sd_mountable, wjob, cpc, bufs, rets, ub >>
    /\ UNCHANGED << sd_files, sd_dirs, clock, azure, g_render_paused, req, cvars, loc, trace >>

image_render_service_render_next ==
    \/ RenderReadPriority
    \/ RenderClearPriority
    \/ RenderPriority
    \/ RenderPriorityPersist
    \/ RenderList
    \/ RenderPrune
    \/ RenderSelect
    \/ RenderSelected
    \/ RenderPersist

\* blob_commands.cpp: is_valid_queue_g4_path
is_valid_queue_g4_path(name) ==
    /\ name # NoName
    /\ name.stem # ".."
    /\ name.ext = ".g4"
    /\ has_prefix(name, "queue-permanent") \/ has_prefix(name, "queue-temporary")

\* the command "show_next" with a path: another thread writes the override
ShowNext(names, limit) ==
    /\ trace.sets < limit
    /\ \E name \in names :
         /\ is_valid_queue_g4_path(name)
         /\ g_rtc_image_state' =
               rtc_image_state_set_priority_image_name(g_rtc_image_state, name)
    /\ trace' = [trace EXCEPT !.sets = @ + 1]
    /\ UNCHANGED evars
    /\ UNCHANGED << sd_files, sd_dirs, clock, azure, g_render_paused, req, cvars, hpc, loc >>

(***************************************************************************)
(* render_scheduler.cpp.  render_scheduler holds the file's static         *)
(* variables.  render_scheduler_tick runs on the thread of the main loop;  *)
(* it reads the job through sd_storage_get_job and enqueues through        *)
(* sd_storage_enqueue_render_next.                                         *)
(***************************************************************************)
render_scheduler_init(refresh_interval_ms, retry_interval_ms, mode) ==
    [ g_render_job_id |-> 0, g_refresh_interval_ms |-> refresh_interval_ms,
      g_retry_interval_ms |-> retry_interval_ms, g_pending_refresh |-> TRUE,
      g_last_refresh_ms |-> 0, g_next_attempt_ms |-> 0, g_mode |-> mode ]

\* trace.requested notes the job that was outstanding at the latest request
render_scheduler_request_refresh ==
    /\ render_scheduler' = [render_scheduler EXCEPT !.g_pending_refresh = TRUE]
    /\ trace' = [trace EXCEPT !.requested = render_scheduler.g_render_job_id]
    /\ UNCHANGED evars
    /\ UNCHANGED << sd_files, sd_dirs, g_rtc_image_state, clock, azure, g_render_paused,
                    req, hpc, loc, callers >>

\* poll_render_job: whether it returned true, *out_success, g_render_job_id
\* after the call
poll_render_job(rs, tbl, h) ==
    IF rs.g_render_job_id = 0
    THEN [polled |-> FALSE, success |-> FALSE, id |-> 0]
    ELSE LET info == sd_storage_get_job(tbl, h, rs.g_render_job_id) IN
         IF ~info.found
         THEN [polled |-> TRUE, success |-> FALSE, id |-> 0]
         ELSE IF info.state = "Done" \/ info.state = "Error"
         THEN [polled |-> TRUE, success |-> info.success, id |-> 0]
         ELSE [polled |-> FALSE, success |-> FALSE, id |-> rs.g_render_job_id]

\* lines 86-95 of render_scheduler_tick: the result of the poll is absorbed
AbsorbResult(rs, p, t) ==
    IF ~p.polled THEN rs
    ELSE IF p.success
    THEN [rs EXCEPT !.g_render_job_id = p.id, !.g_last_refresh_ms = t,
                    !.g_pending_refresh = FALSE, !.g_next_attempt_ms = 0]
    ELSE [rs EXCEPT !.g_render_job_id = p.id,
                    !.g_next_attempt_ms = t + rs.g_retry_interval_ms]

\* line 97
RefreshDue(rs, t) ==
    \/ rs.g_pending_refresh
    \/ /\ rs.g_refresh_interval_ms > 0
       /\ uint32_ge(t - rs.g_last_refresh_ms, rs.g_refresh_interval_ms)

GateIgnored(rs, t) == rs.g_render_job_id = 0

\* line 98
GateOpen(rs, t) == uint32_ge(t, rs.g_next_attempt_ms) /\ rs.g_render_job_id = 0

\* enqueue_render_job and line 101, given what
\* sd_storage_enqueue_render_next returned
AfterEnqueue(rs, id, t) ==
    IF id = 0
    THEN [rs EXCEPT !.g_render_job_id = 0,
                    !.g_next_attempt_ms = t + rs.g_retry_interval_ms]
    ELSE [rs EXCEPT !.g_render_job_id = id]

\* the state of the scheduler after the poll of this tick
Absorbed ==
    AbsorbResult(render_scheduler, poll_render_job(render_scheduler, g_jobs, heap), now)

render_scheduler_tick(limit) ==
    IF RefreshDue(Absorbed, now) /\ GateOpen(Absorbed, now)
    THEN /\ g_next_job_id <= limit
         /\ g_rtc_image_state' = rtc_image_state_init(g_rtc_image_state)
         /\ \E D \in SUBSET DanglingSlots(g_jobs, heap) :
              \E E \in SUBSET (DanglingSlots(g_jobs, heap) \ D) :
                enqueue_job(alloc_job(g_next_job_id, "RenderNext", NULL, now), D, E)
         /\ g_next_job_id' = NextJobId(g_next_job_id)
         /\ render_scheduler' = AfterEnqueue(Absorbed, rets'[Len(rets')], now)
         /\ UNCHANGED << g_spi, g_job_queue, g_worker_task, g_sd_ready, now, sd_mountable,
                         wpc, wjob, cpc, effects >>
         /\ UNCHANGED << sd_files, sd_dirs, clock, azure, g_render_paused, req, hpc, loc,
                         trace, callers >>
    ELSE /\ render_scheduler' = Absorbed
         /\ UNCHANGED evars
         /\ UNCHANGED << sd_files, sd_dirs, g_rtc_image_state, clock, azure,
                         g_render_paused, req, hpc, loc, trace, callers >>

\* millis() between two calls of the main loop
MillisAdvance(limit) ==
    /\ now < limit * TickMs
    /\ now' = now + TickMs
    /\ UNCHANGED << g_spi, g_job_queue, queue, g_worker_task, g_jobs, heap, g_next_job_id,
                    g_sd_ready, sd_mountable, wpc, wjob, cpc, bufs, effects, rets, ub >>
    /\ UNCHANGED hvars

\* The scheduler has nothing to do until the next request: no job, no
\* pending refresh, no periodic refresh.  Every tick until then changes
\* nothing, and millis() comes to stand one TickMs before its rollover,
\* 2^32 - TickMs.
MillisNearRollover ==
    /\ now >= 0
    /\ render_scheduler.g_render_job_id = 0
    /\ ~render_scheduler.g_pending_refresh
    /\ render_scheduler.g_refresh_interval_ms = 0
    /\ queue = << >>
    /\ wpc = "recv"
    /\ now' = 0 - TickMs
    /\ UNCHANGED << g_spi, g_job_queue, queue, g_worker_task, g_jobs, heap, g_next_job_id,
                    g_sd_ready, sd_mountable, wpc, wjob, cpc, bufs, effects, rets, ub >>
    /\ UNCHANGED hvars

(***************************************************************************)
(* Specifications                                                          *)
(***************************************************************************)
EngineInit ==
    /\ g_spi = FALSE
    /\ g_job_queue = FALSE
    /\ queue = << >>
    /\ g_worker_task = FALSE
    /\ g_jobs = [s \in Slots |-> NULL]
    /\ heap = << >>
    /\ g_next_job_id = 1
    /\ g_sd_ready = FALSE
    /\ now = 0
    /\ sd_mountable \in BOOLEAN
    /\ wpc = "recv"
    /\ wjob = NULL
    /\ cpc = "idle"
    /\ bufs = << >>
    /\ effects = {}
    /\ rets = << >>
    /\ ub = {}

\* no thread is inside sd_storage_enqueue_*
NoCallers == << >>

\* render_scheduler.cpp lines 9-15: the variables before render_scheduler_init
SchedulerStatics ==
    [ g_render_job_id |-> 0, g_refresh_interval_ms |-> 0, g_retry_interval_ms |-> 0,
      g_pending_refresh |-> TRUE, g_last_refresh_ms |-> 0, g_next_attempt_ms |-> 0,
      g_mode |-> "Random" ]

CallersIdle ==
    /\ callers = NoCallers
    /\ render_scheduler = SchedulerStatics

\* the handlers at rest on an empty medium
HandlersIdle ==
    /\ sd_files = << >>
    /\ sd_dirs = {}
    /\ g_rtc_image_state = RtcPowerOn
    /\ clock = 0
    /\ azure = [wifi |-> FALSE]
    /\ g_render_paused = FALSE
    /\ req = [name |-> NoName]
    /\ hpc = "idle"
    /\ loc = NoLocals
    /\ trace = NoTrace

Init == EngineInit /\ HandlersIdle /\ CallersIdle

Worker ==
    \/ WorkerEnsure
    \/ WorkerMountDone
    \/ WorkerSdFailRest
    \/ WorkerHandler
    \/ WorkerStamp
    \/ WorkerFreeBuffer

Enqueues(limit, pre, typed) ==
    \/ sd_storage_enqueue_list(limit, pre, typed)
    \/ sd_storage_enqueue_delete(limit, pre, typed)
    \/ sd_storage_enqueue_upload(limit, pre, typed)
    \/ sd_storage_enqueue_display(limit, pre, typed)
    \/ sd_storage_enqueue_render_next(limit, pre, typed)
    \/ sd_storage_enqueue_sync_from_azure(limit, pre, typed)

(***************************************************************************)
(* Spec: the portal mode of the firmware: every caller, a few jobs.        *)
(***************************************************************************)
Next ==
    \/ Enqueues(MaxJobs, MaxFreeCalls, MaxFreeCalls)
    \/ sd_storage_configure
    \/ sd_storage_purge_jobs
    \/ PortalEnsureReady
    \/ PortalMountDone
    \/ WorkerReceive(MaxJobs)
    \/ Worker
    \/ CardChange
    \/ Tick

Spec == Init /\ [][Next]_vars

(***************************************************************************)
(* LiveSpec: Spec with the scheduling of FreeRTOS: the worker task, once   *)
(* runnable, runs.                                                         *)
(***************************************************************************)
LiveSpec == Spec /\ WF_vars(WorkerReceive(MaxJobs) \/ Worker)

(***************************************************************************)
(* BurstSpec: callers that enqueue a burst of jobs, the six types in       *)
(* rotation, after sd_storage_configure, faster than the worker takes      *)
(* them: the runs that fill the queue and the job table.                   *)
(***************************************************************************)
BurstNext ==
    \/ Enqueues(MaxBurst, 0, 0)
    \/ sd_storage_configure
    \/ sd_storage_purge_jobs
    \/ WorkerReceive(MaxBurstWorkerId)
    \/ Worker
    \/ Tick

BurstSpec == Init /\ [][BurstNext]_vars


(***************************************************************************)
(* The properties                                                          *)
(***************************************************************************)
JobIds == 1 .. MaxJobs

InTable(tbl, id) == \E s \in Slots : tbl[s] = id

LastRet(r) == r[Len(r)]

\* a step in which an enqueue_* call returned
EnqueueReturned == Len(rets') = Len(rets) + 1

\* the threads inside an operation on the storage medium
InStorageOp ==
    (IF wpc \in {"mount", "handler"} THEN {"worker"} ELSE {})
        \cup (IF cpc = "mount" THEN {"portal"} ELSE {})

\* C1: of the ids the enqueue_* calls of a run returned, each nonzero one is
\* greater than everything an earlier call returned (so greater than the id
\* of every earlier successful enqueue, and not zero).
C1_IdsStrictlyIncrease ==
    \A i \in DOMAIN rets : \A j \in DOMAIN rets :
        (i < j /\ rets[j] # 0) => rets[i] < rets[j]

C1_Witness ==
    /\ Len(rets) >= 2
    /\ rets[1] # 0
    /\ rets[2] # 0

\* C2: an enqueue_* call made while the queue holds its kJobQueueDepth jobs
\* returns a nonzero id, and sd_storage_get_job on that id right after the
\* call reports state Error, success false and message "Queue full".
C2_Step ==
    (EnqueueReturned /\ g_job_queue /\ Len(queue) = kJobQueueDepth) =>
        /\ LastRet(rets') # 0
        /\ sd_storage_get_job(g_jobs', heap', LastRet(rets')).found
        /\ sd_storage_get_job(g_jobs', heap', LastRet(rets')).state = "Error"
        /\ sd_storage_get_job(g_jobs', heap', LastRet(rets')).success = FALSE
        /\ sd_storage_get_job(g_jobs', heap', LastRet(rets')).message = "Queue full"

C2_QueueFullReported == [][C2_Step]_vars

C2_Witness ==
    /\ Len(queue) = kJobQueueDepth
    /\ rets # << >>
    /\ LastRet(rets) \in DOMAIN heap
    /\ heap[LastRet(rets)].message = "Queue full"

\* C3: a job's state moves only Queued -> Running -> Done or Error; a job
\* enters the table Queued, or Error with "Queue full" when the queue was
\* full; a Done or Error job keeps its state; a "Queue full" job is never in
\* the queue and never the worker's job.
StateMoves ==
    { << "Queued", "Queued" >>, << "Queued", "Running" >>, << "Running", "Running" >>,
      << "Running", "Done" >>, << "Running", "Error" >>,
      << "Done", "Done" >>, << "Error", "Error" >> }

C3_Step ==
    /\ \A id \in DOMAIN heap \cap DOMAIN heap' :
          << heap[id].state, heap'[id].state >> \in StateMoves
    /\ \A id \in DOMAIN heap' \ DOMAIN heap :
          \/ heap'[id].state = "Queued" /\ id \in Range(queue')
          \/ /\ heap'[id].state = "Error"
             /\ heap'[id].message = "Queue full"
             /\ Len(queue) = kJobQueueDepth
    /\ \A id \in DOMAIN heap' :
          heap'[id].message = "Queue full" => (id \notin Range(queue') /\ wjob' # id)

C3_StateMachine == [][C3_Step]_vars

C3_Witness ==
    /\ \E id \in DOMAIN heap : heap[id].message = "Queue full"
    /\ \E id \in DOMAIN heap : heap[id].state \in {"Done", "Error"} /\ id \in effects
    /\ \E id \in DOMAIN heap : heap[id].state = "Queued"

\* C4: the job table holds every allocated job and so at most kMaxJobs of
\* them, and no step (store_job's garbage collection or eviction,
\* sd_storage_purge_jobs) removes a job that is Queued or Running.
C4_Step ==
    /\ Cardinality(DOMAIN heap') <= kMaxJobs
    /\ \A id \in DOMAIN heap' : InTable(g_jobs', id)
    /\ \A id \in DOMAIN heap :
          heap[id].state \in {"Queued", "Running"} =>
              (id \in DOMAIN heap' /\ InTable(g_jobs', id))

C4_TableBoundedActiveKept == [][C4_Step]_vars

C4_Witness ==
    /\ Cardinality(DOMAIN heap) = kMaxJobs
    /\ g_next_job_id > kMaxJobs + 1
    /\ now > 0
    /\ \E id \in DOMAIN heap : heap[id].state = "Queued" /\ now - heap[id].updated_ms >= kJobGcMinAgeMs
    /\ \E id \in DOMAIN heap : heap[id].state = "Running"

\* C5 as stated: every job a step removes from the table is Done or Error
\* and was last updated at least kJobGcMinAgeMs before.
Removed == DOMAIN heap \ DOMAIN heap'

C5_RemovedAreOld ==
    [][\A id \in Removed :
          /\ IsTerminal(heap[id].state)
          /\ AgeMs(heap[id], now) >= kJobGcMinAgeMs]_vars

\* C5 as amended: every job a step removes from the table is Done or Error;
\* it was last updated at least kJobGcMinAgeMs before, or it is the one job
\* store_job evicts: every slot was taken, no Done or Error job was that
\* old, and no Done or Error job had a smaller updated_ms.
EvictedOldest(id) ==
    /\ \A s \in Slots : g_jobs[s] # NULL
    /\ Removed = {id}
    /\ EnqueueReturned
    /\ \A j \in DOMAIN heap :
          IsTerminal(heap[j].state) =>
              /\ AgeMs(heap[j], now) < kJobGcMinAgeMs
              /\ heap[id].updated_ms <= heap[j].updated_ms
    /\ \E s \in Slots : g_jobs[s] = id /\ g_jobs'[s] = LastRet(rets')

C5_Step ==
    \A id \in Removed :
        /\ IsTerminal(heap[id].state)
        /\ AgeMs(heap[id], now) >= kJobGcMinAgeMs \/ EvictedOldest(id)

C5_RemovedAreTerminalOldOrEvicted == [][C5_Step]_vars

C5_Witness ==
    /\ now = 0
    /\ Cardinality(DOMAIN heap) = kMaxJobs
    /\ g_next_job_id > kMaxJobs + 1

\* C6: the payload buffer of every accepted Upload job is freed by the
\* worker only, and not more than once (looked at while the worker is
\* between two jobs).
C6_BufferFreedOnceByWorker ==
    \A b \in DOMAIN bufs :
        (b \in Range(rets) /\ wpc = "recv") =>
            (bufs[b].frees <= 1 /\ bufs[b].by \subseteq {"worker"})

\* C7: only the worker thread is ever inside an operation on the storage
\* medium.
C7_OnlyWorkerTouchesMedium == InStorageOp \subseteq {"worker"}

\* C8: every job that is in the queue reaches Done or Error.
C8_QueuedJobsFinish ==
    \A i \in JobIds :
        (i \in Range(queue)) ~> (i \in DOMAIN heap /\ IsTerminal(heap[i].state))

C8_Witness ==
    /\ 1 \in DOMAIN heap
    /\ heap[1].state = "Error"
    /\ heap[1].message # "Queue full"
    /\ 2 \in DOMAIN heap
    /\ IsTerminal(heap[2].state)
    /\ 2 \in effects

\* C9: when the medium cannot be mounted as the worker's mount attempt for a
\* job ends, the job goes to Error with success false and message
\* "SD init failed", and its handler does not run: the step leaves the
\* handlers' effects as they were, and the job is never among them.
C9_Step ==
    /\ (wpc = "mount" /\ wpc' # "mount" /\ ~sd_mountable) =>
          /\ wpc' = "sdfail"
          /\ heap'[wjob].state = "Error"
          /\ effects' = effects
    /\ (wpc = "sdfail" /\ wpc' # "sdfail") =>
          /\ effects' = effects
          /\ wjob \in DOMAIN heap =>
                /\ heap'[wjob].state = "Error"
                /\ heap'[wjob].success = FALSE
                /\ heap'[wjob].message = "SD init failed"
    /\ \A id \in DOMAIN heap' :
          heap'[id].message = "SD init failed" =>
              /\ heap'[id].state = "Error"
              /\ heap'[id].success = FALSE
              /\ id \notin effects'

C9_SdInitFailedNoHandler == [][C9_Step]_vars

C9_Witness ==
    \E id \in DOMAIN heap :
        /\ heap[id].message = "SD init failed"
        /\ heap[id].type = "RenderNext"
        /\ wpc = "recv"

\* C10: an enqueue_* call that returns 0 leaves no entry for its job in the
\* table, changes no other job's state and puts nothing on the queue.
C10_RejectionHasNoEffect ==
    [][(EnqueueReturned /\ LastRet(rets') = 0) =>
          /\ \A s \in Slots : g_jobs'[s] # g_next_job_id
          /\ \A id \in DOMAIN heap :
                id \in DOMAIN heap' /\ heap'[id].state = heap[id].state
          /\ queue' = queue]_vars

(***************************************************************************)
(* UploadSpec: callers enqueue Upload jobs of one name and size; the       *)
(* worker runs write_upload_to_sd on a medium that may already hold the    *)
(* target and a stale temporary file.                                      *)
(***************************************************************************)
UploadNames ==
    { G4("", NoStamp, "a"), G4("queue-permanent", NoStamp, "a"),
      G4("perm", NoStamp, "a"),
      [dir |-> "", ts |-> NoStamp, stem |-> "a", ext |-> ".bmp"] }

\* what the medium may hold of a name before the jobs
MediumFor(name) ==
    { f \in UNION { [ D -> { Payload(NULL, MaxPayload, MaxPayload),
                                Payload(NULL, 1, MaxPayload) } ] :
                     D \in SUBSET { PathOf(name), << name, ".tmp" >> } } :
        \A q \in DOMAIN f : Complete(f[q]) <=> q[2] = "" }

UploadInit ==
    /\ EngineInit
    /\ req \in [name : UploadNames, size : {0, MaxPayload}]
    /\ sd_files \in MediumFor(req.name)
    /\ sd_dirs \in SUBSET {"queue-permanent"}
    /\ g_rtc_image_state = RtcPowerOn
    /\ clock = 0
    /\ azure = [wifi |-> FALSE]
    /\ g_render_paused = FALSE
    /\ hpc = "idle"
    /\ loc = NoLocals
    /\ trace = NoTrace
    /\ CallersIdle

UploadNext ==
    \/ sd_storage_configure
    \/ sd_storage_enqueue_upload(MaxUploads, 0, MaxUploads)
    \/ WorkerReceive(MaxUploads)
    \/ WorkerEnsure
    \/ WorkerMountDone
    \/ WorkerSdFailRest
    \/ write_upload_to_sd
    \/ WorkerStamp
    \/ WorkerFreeBuffer

UploadSpec == UploadInit /\ [][UploadNext]_vars

\* the content of the file at a path: << >> if there is none
FileAt(files, path) == IF SD_exists(files, path) THEN << files[path] >> ELSE << >>

\* the last Upload job the worker ran has returned from a short write
ShortWriteReturned ==
    /\ loc.fn = "upload"
    /\ hpc = "idle"
    /\ loc.job = wjob
    /\ loc.wrote
    /\ loc.written < loc.size

C12_TargetNeverPartial ==
    \A path \in DOMAIN sd_files : path[2] = "" => Complete(sd_files[path])

C12_Witness ==
    /\ loc.fn = "upload"
    /\ hpc = "check"
    /\ ~Complete(sd_files[loc.temp])
    /\ SD_exists(sd_files, loc.target)

(***************************************************************************)
(* SyncSpec: callers enqueue SyncFromAzure jobs; the worker runs           *)
(* handle_sync_from_azure against a container, a network, a clock and a    *)
(* medium chosen at the start.                                             *)
(***************************************************************************)
ClockValid == kValidTimeThreshold + 100

StampPast == kValidTimeThreshold + 50

StampFuture == kValidTimeThreshold + 200

BlobUniverse ==
    { G4("queue-temporary", StampFuture, "a"), G4("all/temporary", StampFuture, "a"),
      G4("all/temporary", StampPast, "b"), G4("all/permanent", NoStamp, "a"),
      G4("queue-permanent", NoStamp, "a"), G4("all/permanent", NoStamp, "b") }

\* the managed files the medium holds before the jobs
LocalFiles ==
    ( PathOf(G4("queue-permanent", NoStamp, "b")) :> Payload(NULL, MaxPayload, MaxPayload) )
    @@ ( PathOf(G4("queue-temporary", StampFuture, "b"))
            :> Payload(NULL, MaxPayload, MaxPayload) )

SyncInit ==
    /\ EngineInit
    /\ req \in [sas : {"", "malformed", "ok"}]
    /\ azure \in [wifi : BOOLEAN,
                  blobs : { B \in SUBSET BlobUniverse : Cardinality(B) <= MaxBlobs }]
    /\ clock \in {0, ClockValid}
    /\ sd_files \in { << >>, LocalFiles }
    /\ sd_dirs = {"queue-permanent", "queue-temporary"}
    /\ g_rtc_image_state = RtcPowerOn
    /\ g_render_paused \in BOOLEAN
    /\ hpc = "idle"
    /\ loc = NoLocals
    /\ trace = NoTrace
    /\ CallersIdle

SyncNext ==
    \/ sd_storage_configure
    \/ sd_storage_enqueue_sync_from_azure(MaxSyncs, 0, MaxSyncs)
    \/ WorkerReceive(MaxSyncs)
    \/ WorkerEnsure
    \/ WorkerMountDone
    \/ WorkerSdFailRest
    \/ handle_sync_from_azure
    \/ WorkerStamp
    \/ WorkerFreeBuffer
    \/ handlePostRenderPause
    \/ handlePostRenderResume

SyncSpec == SyncInit /\ [][SyncNext]_vars

\* the last SyncFromAzure job the worker ran has returned
SyncReturned ==
    /\ loc.fn = "sync"
    /\ hpc = "idle"
    /\ loc.job = wjob

\* one of the three preconditions of the reconciliation does not hold
PreconditionFailed == req.sas = "" \/ ~azure.wifi \/ ~is_time_valid(clock)

\* C13: a SyncFromAzure job that finds the SAS credentials missing, the
\* network down or the clock not valid ends in Error with no local file
\* deleted or written
C13_PreconditionsBeforeMutation ==
    (SyncReturned /\ PreconditionFailed) =>
        /\ heap[wjob].state = "Error"
        /\ sd_files = loc.files0

\* the names the two pending-queue listings hold
PendingListing ==
    { b \in azure.blobs : has_prefix(b, "queue-temporary") \/ has_prefix(b, "queue-permanent") }

\* C19: an archive entry whose queue-relative name is in a pending-queue
\* listing is never downloaded and never written to the medium
C19_QueuedNeverDownloaded ==
    /\ \A i \in 1 .. Len(trace.downloaded) :
         derive_queue_name_from_all_blob(trace.downloaded[i]).name \notin PendingListing
    /\ \A path \in trace.written : path[1] \notin PendingListing

C19_Witness ==
    /\ SyncReturned
    /\ heap[wjob].state = "Done"
    /\ trace.written # {}
    /\ \E b \in azure.blobs :
         /\ derive_queue_name_from_all_blob(b).ok
         /\ derive_queue_name_from_all_blob(b).name \in PendingListing

\* C20: a SyncFromAzure job that finished with failed items reports the
\* failure count in the message get_job returns and the failed names
\* through get_job_names
C20_FailuresReported ==
    (SyncReturned /\ loc.fail_count > 0) =>
        /\ sd_storage_get_job(g_jobs, heap, wjob).found
        /\ sd_storage_get_job(g_jobs, heap, wjob).message.failed = loc.fail_count
        /\ sd_storage_get_job_names(g_jobs, heap, wjob).ok
        /\ Len(sd_storage_get_job_names(g_jobs, heap, wjob).names) = loc.fail_count

(***************************************************************************)
(* RenderSpec: callers enqueue RenderNext jobs of one selection mode; the  *)
(* worker runs image_render_service_render_next on a medium and a clock    *)
(* chosen at the start, while the command processor may set the priority   *)
(* override.                                                               *)
(***************************************************************************)
ClockInvalid == kValidTimeThreshold - 1

StampOld == kValidTimeThreshold - 50

\* the second name is longer than a cursor of RTC_IMAGE_NAME_MAX_LEN holds
PermUniverse == { G4("perm", NoStamp, "a"), G4("perm", NoStamp, TooLongStem) }

TempUniverse == { G4("temp", StampOld, "a"), G4("temp", StampFuture, "b") }

\* the names "show_next" may carry: the first is on the medium, the second not
PriorityNames == { G4("queue-temporary", StampOld, "a"),
                   G4("queue-permanent", NoStamp, "c") }

MediumWith(names) ==
    [ path \in { PathOf(n) : n \in names \cup {G4("queue-temporary", StampOld, "a")} }
        |-> Payload(NULL, MaxPayload, MaxPayload) ]

RenderInit ==
    /\ EngineInit
    /\ req \in [mode : {"Random", "Sequential"}]
    /\ sd_files \in { MediumWith(P \cup T) :
                        P \in SUBSET PermUniverse, T \in SUBSET TempUniverse }
    /\ Cardinality(DOMAIN sd_files) <= MaxRenderFiles + 1
    /\ sd_dirs = {"perm", "temp", "queue-temporary"}
    /\ clock \in {ClockInvalid, ClockValid}
    /\ g_rtc_image_state = RtcPowerOn
    /\ azure = [wifi |-> FALSE]
    /\ g_render_paused = FALSE
    /\ hpc = "idle"
    /\ loc = NoLocals
    /\ trace = NoTrace
    /\ CallersIdle

RenderLoop ==
    \/ sd_storage_configure
    \/ sd_storage_enqueue_render_next(MaxRenders, 0, MaxRenders)
    \/ WorkerReceive(MaxRenders)
    \/ WorkerEnsure
    \/ WorkerMountDone
    \/ WorkerSdFailRest
    \/ image_render_service_render_next
    \/ WorkerStamp
    \/ WorkerFreeBuffer
    \/ ShowNext(PriorityNames, MaxShowNext)

RenderSpec == RenderInit /\ [][RenderLoop]_vars

\* the list the selection was drawn from and the cursor of its collection
SelectedFrom == IF loc.selected_is_temp THEN loc.temp_candidates ELSE loc.perm_names

SelectedCursor ==
    IF loc.selected_is_temp THEN g_rtc_image_state.last_temp_name
    ELSE g_rtc_image_state.last_perm_name

\* C14: Sequential selection returns the entry after the collection's
\* persisted last-rendered name, wrapping from the last entry to the first,
\* and the first entry when there is no such name or it is not in the list
C14_SequentialNext ==
    (loc.fn = "render" /\ hpc = "render" /\ loc.mode = "Sequential") =>
        LET L == SelectedFrom
            last == SelectedCursor
        IN  IF last # NoName /\ \E i \in 1 .. Len(L) : L[i] = last
            THEN \E i \in 1 .. Len(L) :
                    /\ L[i] = last
                    /\ loc.selected_name = L[IF i = Len(L) THEN 1 ELSE i + 1]
            ELSE loc.selected_name = L[1]

C14_Witness ==
    /\ loc.fn = "render"
    /\ hpc = "render"
    /\ loc.mode = "Sequential"
    /\ Len(SelectedFrom) >= 2
    /\ SelectedCursor = SelectedFrom[Len(SelectedFrom)]
    /\ loc.selected_name = SelectedFrom[1]

\* both collections hold an entry
BothCollections ==
    ListedNames(sd_files, "perm") # {} /\ ListedNames(sd_files, "temp") # {}

\* an earlier RenderNext job rendered with success
EarlierSuccess ==
    \E i \in 1 .. Len(trace.rendered) :
        trace.rendered[i].ok /\ trace.rendered[i].job # wjob

\* C15 as stated: every successful RenderNext job that follows a successful
\* one while both collections are non-empty flips last_was_temp
C15_EveryJobAlternates ==
    [][ ( /\ hpc \in {"persist", "prio_persist"}
          /\ hpc' = "idle"
          /\ EarlierSuccess
          /\ BothCollections )
        => g_rtc_image_state'.last_was_temp =
              ~rtc_image_state_get_last_was_temp(g_rtc_image_state) ]_vars

\* C15: every successful RenderNext job that selects by normal selection
\* while both collections are non-empty draws from the collection opposite
\* to last_was_temp and flips the bit
C15_NormalSelectionAlternates ==
    [][ ( /\ hpc = "persist"
          /\ hpc' = "idle"
          /\ BothCollections )
        => /\ loc.selected_is_temp =
                ~rtc_image_state_get_last_was_temp(g_rtc_image_state)
           /\ g_rtc_image_state'.last_was_temp =
                ~rtc_image_state_get_last_was_temp(g_rtc_image_state) ]_vars

C15_Witness ==
    /\ hpc = "persist"
    /\ EarlierSuccess
    /\ BothCollections
    /\ g_rtc_image_state.last_was_temp
    /\ ~loc.selected_is_temp

\* a temporary entry whose embedded expiry is at or before t
ExpiredEntry(name, t) ==
    name.dir = "temp" /\ name.ts # NoStamp /\ name.ts > 0 /\ name.ts <= t

\* the last RenderNext job the worker ran has returned with success
RenderSucceeded ==
    /\ loc.fn = "render"
    /\ hpc = "idle"
    /\ loc.job = wjob
    /\ heap[wjob].state = "Done"

C17_NoPruningOnInvalidClock ==
    [][ ~is_time_valid(clock) =>
          /\ sd_files' = sd_files
          /\ (loc'.fn = "render" /\ loc'.pruned) =>
                { loc'.temp_candidates[i] : i \in 1 .. Len(loc'.temp_candidates) }
                   = ListedNames(sd_files', "temp") ]_vars

C17_Witness ==
    /\ ~is_time_valid(clock)
    /\ loc.fn = "render"
    /\ loc.pruned
    /\ hpc = "persist"
    /\ loc.selected_is_temp
    /\ loc.selected_name.ts <= clock

\* the render attempts of a job
AttemptsOf(job) ==
    { i \in 1 .. Len(trace.rendered) : trace.rendered[i].job = job }

\* C18: a RenderNext job that finds the priority name set and its file
\* present renders that file and nothing else and clears the override; an
\* override is rendered by one job only, so a following job with no new
\* override goes through normal selection
C18_PriorityConsumedOnce ==
    /\ (loc.fn = "render" /\ loc.prio_exists) =>
          \A i \in AttemptsOf(loc.job) :
             /\ trace.rendered[i].via = "priority"
             /\ trace.rendered[i].path = PathOf(loc.prio_read)
    /\ (loc.fn = "render" /\ loc.prio_exists /\ hpc = "idle") =>
          Cardinality(AttemptsOf(loc.job)) = 1
    /\ (loc.fn = "render" /\ loc.prio_read # NoName /\ hpc # "clear"
          /\ trace.sets = loc.sets) =>
          g_rtc_image_state.priority_image_name = NoName
    /\ Cardinality({ i \in 1 .. Len(trace.rendered) :
                        trace.rendered[i].via = "priority" }) <= trace.sets

C18_Witness ==
    \E i \in 1 .. Len(trace.rendered) : \E j \in 1 .. Len(trace.rendered) :
        /\ trace.rendered[i].via = "priority"
        /\ trace.rendered[i].ok
        /\ trace.rendered[j].via = "normal"
        /\ trace.rendered[j].job = trace.rendered[i].job + 1
        /\ trace.sets = 1

\* C21: every return of the reconciliation routine after it suspended
\* automatic rendering leaves the render-paused flag at the value it had
\* when the routine started
C21_PausedRestored ==
    [][ (loc.fn = "sync" /\ hpc # "idle" /\ hpc' = "idle")
          => g_render_paused' = trace.paused0 ]_vars

C21_Witness ==
    /\ SyncReturned
    /\ trace.suspended
    /\ heap[wjob].state = "Error"
    /\ ~trace.paused0
    /\ ~g_render_paused

(***************************************************************************)
(* AllocSpec: MaxCallers threads call sd_storage_enqueue_list, each up to  *)
(* MaxCallsEach times, while the worker serves the queue.                  *)
(***************************************************************************)
AllocInit ==
    /\ EngineInit
    /\ HandlersIdle
    /\ callers = [c \in CallerThreads |-> CallerAtRest]
    /\ render_scheduler = SchedulerStatics

AllocNext ==
    \/ sd_storage_configure
    \/ \E c \in CallerThreads : AllocLoad(c, MaxCallsEach)
    \/ \E c \in CallerThreads : CallerAllocStore(c)
    \/ \E c \in CallerThreads : CallerEnqueue(c)
    \/ WorkerReceive(MaxCallers * MaxCallsEach)
    \/ WorkerEnsure
    \/ WorkerMountDone
    \/ WorkerSdFailRest
    \/ WorkerHandler
    \/ WorkerStamp
    \/ WorkerFreeBuffer

AllocSpec == AllocInit /\ [][AllocNext]_vars

\* the jobs alloc_job has created: the thread and the position in its calls
CreatedJobs ==
    UNION { { << c, i >> : i \in 1 .. Len(callers[c].made) } : c \in CallerThreads }

\* C22: no two jobs created by concurrent callers carry the same id and no
\* job carries id 0
C22_IdsUniqueNonZero ==
    \A j \in CreatedJobs :
        /\ callers[j[1]].made[j[2]] # 0
        /\ \A k \in CreatedJobs :
              j # k => callers[j[1]].made[j[2]] # callers[k[1]].made[k[2]]

\* the name belongs to the temporary collection
InTemporaryCollection(name) ==
    has_prefix(name, "queue-temporary") \/ has_prefix(name, "temp")

\* C23: the job that rendered a priority override sets the cursor of the
\* override's collection to the override's name and last_was_temp to
\* whether the override is in the temporary collection
C23_PriorityCursor ==
    [][ (hpc = "prio_persist" /\ hpc' = "idle") =>
          /\ g_rtc_image_state'.last_was_temp = InTemporaryCollection(loc.prio_read)
          /\ IF InTemporaryCollection(loc.prio_read)
             THEN g_rtc_image_state'.last_temp_name = loc.prio_read
             ELSE g_rtc_image_state'.last_perm_name = loc.prio_read ]_vars

(***************************************************************************)
(* NameSpec: callers enqueue Delete, Upload and Display jobs of one name,  *)
(* valid or not; the worker runs them on a medium that may hold a file at  *)
(* the path the name spells.                                               *)
(***************************************************************************)
NameUniverse ==
    { G4("", NoStamp, "a"), G4("queue-temporary", StampFuture, "a"),
      G4("", NoStamp, LongestStem),
      NoName,
      G4("", NoStamp, TooLongStem),
      G4("", NoStamp, "..a"),
      G4("", NoStamp, "a\\b"),
      [dir |-> "", ts |-> NoStamp, stem |-> "a", ext |-> ".bmp"],
      G4("perm", NoStamp, "a") }

NameInit ==
    /\ EngineInit
    /\ req \in [name : NameUniverse, size : {MaxPayload}]
    /\ sd_files \in MediumFor(req.name)
    /\ sd_dirs = {"perm", "queue-temporary"}
    /\ g_rtc_image_state = RtcPowerOn
    /\ clock = 0
    /\ azure = [wifi |-> FALSE]
    /\ g_render_paused = FALSE
    /\ hpc = "idle"
    /\ loc = NoLocals
    /\ trace = NoTrace
    /\ CallersIdle

NameNext ==
    \/ sd_storage_configure
    \/ sd_storage_enqueue_delete(MaxNameJobs, 0, MaxNameJobs)
    \/ sd_storage_enqueue_upload(MaxNameJobs, 0, MaxNameJobs)
    \/ sd_storage_enqueue_display(MaxNameJobs, 0, MaxNameJobs)
    \/ WorkerReceive(MaxNameJobs)
    \/ WorkerEnsure
    \/ WorkerMountDone
    \/ WorkerSdFailRest
    \/ handle_delete
    \/ write_upload_to_sd
    \/ handle_display
    \/ WorkerStamp
    \/ WorkerFreeBuffer

NameSpec == NameInit /\ [][NameNext]_vars

\* the name is empty, longer than 127 characters, holds ".." or a backslash,
\* lacks the ".g4" suffix, or has a separator other than the one after a
\* known collection prefix
NameFailsValidation(name) ==
    \/ name = NoName
    \/ NameLen(name) > 127
    \/ name.stem \in StemsWithDotDot \cup StemsWithBackslash
    \/ name.ext # ".g4"
    \/ name.dir \notin {"", "queue-permanent", "queue-temporary"}

C25_PersistsExactly ==
    [][ (hpc = "persist" /\ hpc' = "idle") =>
          LET before == g_rtc_image_state
              after == g_rtc_image_state'
          IN  /\ after.last_was_temp = loc.selected_is_temp
              /\ IF loc.selected_is_temp
                 THEN /\ after.last_temp_name = loc.selected_name
                      /\ after.last_perm_name = before.last_perm_name
                 ELSE /\ after.last_perm_name = loc.selected_name
                      /\ after.last_temp_name = before.last_temp_name
              /\ after.last_image_name =
                    IF loc.mode = "Sequential" THEN loc.selected_name
                    ELSE before.last_image_name
              /\ after.priority_image_name = before.priority_image_name ]_vars

\* the reconciliation is in its download loop
SyncDownloading == loc.fn = "sync" /\ hpc = "download"

\* C26: in the download loop of SyncFromAzure the counts of committed and
\* failed targets sum to the number of targets attempted; every attempt is
\* of the target after the last one attempted, whether that one failed or
\* not; the job returns only after the last target, with ok and failed
\* summing to the number of targets, and it is Done exactly when failed is 0
C26_EveryTargetOnce ==
    /\ [](SyncDownloading =>
            /\ loc.idx <= Len(loc.targets)
            /\ loc.ok_count + loc.fail_count = loc.idx)
    /\ [][ SyncDownloading =>
             \/ UNCHANGED << loc, trace, hpc >>
             \/ /\ hpc' = "download"
                /\ loc.idx < Len(loc.targets)
                /\ loc'.targets = loc.targets
                /\ loc'.idx = loc.idx + 1
                /\ trace'.downloaded =
                      Append(trace.downloaded, loc.targets[loc.idx + 1].blob_name)
             \/ /\ hpc' = "idle"
                /\ UNCHANGED << loc, trace >>
                /\ loc.idx = Len(loc.targets)
                /\ heap'[wjob].message.ok + heap'[wjob].message.failed
                      = Len(loc.targets)
                /\ heap'[wjob].message.failed = loc.fail_count
                /\ (heap'[wjob].state = "Done") <=> (loc.fail_count = 0)
                /\ heap'[wjob].state \in {"Done", "Error"} ]_vars

\* a job returned after a target failed and a later target was committed
C26_Witness ==
    /\ SyncReturned
    /\ heap[wjob].state = "Error"
    /\ loc.ok_count >= 1
    /\ \E i \in 1 .. Len(loc.targets) : \E j \in 1 .. Len(loc.targets) :
         /\ i < j
         /\ \E k \in 1 .. Len(heap[wjob].names) :
              heap[wjob].names[k] \in {loc.targets[i].blob_name, loc.targets[i].queue_name}
         /\ PathOf(loc.targets[j].queue_name) \in trace.written
         /\ PathOf(loc.targets[i].queue_name) \notin trace.written

RefreshIntervals == {0, 2 * TickMs}

RetryIntervals == {0, 2 * TickMs}

SchedInit ==
    /\ EngineInit
    /\ HandlersIdle
    /\ callers = NoCallers
    /\ \E refresh \in RefreshIntervals : \E retry \in RetryIntervals :
         \E mode \in {"Random", "Sequential"} :
           render_scheduler = render_scheduler_init(refresh, retry, mode)

SchedNext ==
    \/ sd_storage_configure
    \/ render_scheduler_request_refresh
    \/ render_scheduler_tick(MaxSchedJobs)
    \/ sd_storage_purge_jobs
    \/ WorkerReceive(MaxSchedJobs)
    \/ WorkerEnsure
    \/ WorkerMountDone
    \/ WorkerSdFailRest
    \/ WorkerHandler
    \/ WorkerStamp
    \/ WorkerFreeBuffer
    \/ MillisAdvance(MaxSchedTicks)
    \/ MillisNearRollover

SchedSpec == SchedInit /\ [][SchedNext]_vars

\* the RenderNext jobs the scheduler enqueued that are not in a terminal state
OutstandingJobs ==
    { id \in DOMAIN heap : heap[id].type = "RenderNext" /\ ~IsTerminal(heap[id].state) }

\* this step is a call of sd_storage_enqueue_render_next
EnqueueStep == Len(rets') = Len(rets) + 1

AbsorbStep ==
    /\ render_scheduler.g_render_job_id # 0
    /\ render_scheduler'.g_render_job_id # render_scheduler.g_render_job_id

\* C29: the tick that finds the outstanding job in a terminal state, or not
\* at all, clears the outstanding id; if the job succeeded it records now as
\* the refresh time and clears the pending flag and the retry gate; if not
\* it leaves the pending flag as it is and sets the retry gate to now plus
\* the retry interval; and no RenderNext is enqueued at a time before a
\* retry gate that is set
C29_ResultAbsorbed ==
    /\ [][ AbsorbStep =>
             LET info == sd_storage_get_job(g_jobs, heap,
                                            render_scheduler.g_render_job_id)
             IN  /\ info.found => IsTerminal(info.state)
                 /\ IF info.found /\ info.success
                    THEN /\ render_scheduler'.g_render_job_id = 0
                         /\ render_scheduler'.g_last_refresh_ms = now
                         /\ ~render_scheduler'.g_pending_refresh
                         /\ render_scheduler'.g_next_attempt_ms = 0
                    ELSE /\ render_scheduler'.g_pending_refresh
                               = render_scheduler.g_pending_refresh
                         /\ render_scheduler'.g_next_attempt_ms
                               = now + render_scheduler.g_retry_interval_ms ]_vars
    /\ [][ EnqueueStep =>
             \/ Absorbed.g_next_attempt_ms = 0
             \/ now >= Absorbed.g_next_attempt_ms ]_vars

(***************************************************************************)
(* MailboxSpec: the command handler writes the priority name up to         *)
(* MaxMailboxWrites times from its thread while the worker runs RenderNext *)
(* jobs.  Both names the handler writes have their file on the medium.     *)
(***************************************************************************)
MailboxNames == { G4("queue-temporary", StampOld, "a"), G4("queue-permanent", NoStamp, "a") }

MailboxInit ==
    /\ EngineInit
    /\ req \in [mode : {"Random", "Sequential"}]
    /\ sd_files = [ path \in { PathOf(n) : n \in MailboxNames \cup {G4("perm", NoStamp, "a")} }
                      |-> Payload(NULL, MaxPayload, MaxPayload) ]
    /\ sd_dirs = {"perm", "temp", "queue-temporary", "queue-permanent"}
    /\ clock \in {ClockInvalid, ClockValid}
    /\ g_rtc_image_state = RtcPowerOn
    /\ azure = [wifi |-> FALSE]
    /\ g_render_paused = FALSE
    /\ hpc = "idle"
    /\ loc = NoLocals
    /\ trace = NoTrace
    /\ CallersIdle

MailboxNext ==
    \/ sd_storage_configure
    \/ sd_storage_enqueue_render_next(MaxMailboxRenders, 0, MaxMailboxRenders)
    \/ WorkerReceive(MaxMailboxRenders)
    \/ WorkerEnsure
    \/ WorkerMountDone
    \/ WorkerSdFailRest
    \/ image_render_service_render_next
    \/ WorkerStamp
    \/ WorkerFreeBuffer
    \/ ShowNext(MailboxNames, MaxMailboxWrites)

MailboxSpec == MailboxInit /\ [][MailboxNext]_vars

\* C30: the name the worker clears from the priority slot is the name it
\* read and goes on to render, so no name a handler wrote is cleared unless
\* it is the one rendered, and a priority render is of the name read
C30_LastWriteRendered ==
    /\ [][ (loc.fn = "render" /\ hpc = "clear" /\ hpc' # "clear") =>
             g_rtc_image_state.priority_image_name = loc.prio_read ]_vars
    /\ [](\A i \in 1 .. Len(trace.rendered) :
            (trace.rendered[i].via = "priority" /\ trace.rendered[i].job = loc.job) =>
                trace.rendered[i].path = PathOf(loc.prio_read))

(***************************************************************************)
(* RtcSpec: the accessors of rtc_state.cpp applied to the record, over     *)
(* wake cycles.  A wake from deep sleep keeps the RTC memory; a loss of    *)
(* power leaves the record without the magic tag and with any content.     *)
(* req records the last call: the accessor, the field, the value passed    *)
(* or returned, and whether the device woke since the last write.          *)
(***************************************************************************)
RtcNameFields == { "last_image_name", "priority_image_name", "last_perm_name", "last_temp_name" }

RtcFields == RtcNameFields \cup { "last_image_index", "last_was_temp" }

RtcNames == { NoName, G4("perm", NoStamp, "a"), G4("perm", NoStamp, TooLongStem) }

\* the values a field is set to and the values it holds after a loss of power
RtcValues(field) ==
    IF field \in RtcNameFields THEN RtcNames
    ELSE IF field = "last_image_index" THEN { kRtcInvalidIndex, 0 }
    ELSE BOOLEAN

RtcMemories ==
    { [ magic |-> 0, last_image_index |-> i, last_image_name |-> a,
        priority_image_name |-> b, last_perm_name |-> c, last_temp_name |-> d,
        last_was_temp |-> w ] :
        i \in RtcValues("last_image_index"),
        a \in { NoName, G4("perm", NoStamp, "a") }, b \in { NoName, G4("perm", NoStamp, "a") },
        c \in { NoName, G4("perm", NoStamp, "a") }, d \in { NoName, G4("perm", NoStamp, "a") },
        w \in BOOLEAN }

RtcGet(st, field) ==
    CASE field = "last_image_index" -> rtc_image_state_get_last_image_index(st)
      [] field = "last_image_name" -> rtc_image_state_get_last_image_name(st)
      [] field = "priority_image_name" -> rtc_image_state_get_priority_image_name(st)
      [] field = "last_perm_name" -> rtc_image_state_get_last_perm_name(st)
      [] field = "last_temp_name" -> rtc_image_state_get_last_temp_name(st)
      [] field = "last_was_temp" -> rtc_image_state_get_last_was_temp(st)

RtcSet(st, field, value) ==
    CASE field = "last_image_index" -> rtc_image_state_set_last_image_index(st, value)
      [] field = "last_image_name" -> rtc_image_state_set_last_image_name(st, value)
      [] field = "priority_image_name" -> rtc_image_state_set_priority_image_name(st, value)
      [] field = "last_perm_name" -> rtc_image_state_set_last_perm_name(st, value)
      [] field = "last_temp_name" -> rtc_image_state_set_last_temp_name(st, value)
      [] field = "last_was_temp" -> rtc_image_state_set_last_was_temp(st, value)

RtcRest == UNCHANGED << evars, sd_files, sd_dirs, clock, azure, g_render_paused,
                        hpc, loc, trace, cvars >>

\* a getter: rtc_image_state_init, then the field is returned
RtcGetter ==
    \E field \in RtcFields :
        /\ req' = [op |-> "get", field |-> field, value |-> RtcGet(g_rtc_image_state, field),
                   woke |-> req.woke]
        /\ g_rtc_image_state' = rtc_image_state_init(g_rtc_image_state)
        /\ RtcRest

RtcSetter ==
    \E field \in RtcFields : \E value \in RtcValues(field) :
        /\ req' = [op |-> "set", field |-> field, value |-> value, woke |-> FALSE]
        /\ g_rtc_image_state' = RtcSet(g_rtc_image_state, field, value)
        /\ RtcRest

RtcClearPriority ==
    /\ req' = [op |-> "clear", field |-> "priority_image_name", value |-> NoName, woke |-> FALSE]
    /\ g_rtc_image_state' = rtc_image_state_clear_priority_image_name(g_rtc_image_state)
    /\ RtcRest

\* deep sleep and wake: RTC_DATA_ATTR memory is kept
RtcWake ==
    /\ req.op # "wake"
    /\ req' = [op |-> "wake", field |-> "", value |-> 0, woke |-> TRUE]
    /\ UNCHANGED g_rtc_image_state
    /\ RtcRest

RtcPowerLoss ==
    /\ req.op # "power"
    /\ req' = [op |-> "power", field |-> "", value |-> 0, woke |-> FALSE]
    /\ g_rtc_image_state' \in RtcMemories
    /\ RtcRest

RtcInit ==
    /\ EngineInit
    /\ sd_files = << >>
    /\ sd_dirs = {}
    /\ g_rtc_image_state \in RtcMemories
    /\ clock = 0
    /\ azure = [wifi |-> FALSE]
    /\ g_render_paused = FALSE
    /\ req = [op |-> "boot", field |-> "", value |-> 0, woke |-> FALSE]
    /\ hpc = "idle"
    /\ loc = NoLocals
    /\ trace = NoTrace
    /\ CallersIdle

RtcNext ==
    \/ RtcGetter
    \/ RtcSetter
    \/ RtcClearPriority
    \/ RtcWake
    \/ RtcPowerLoss

RtcSpec == RtcInit /\ [][RtcNext]_vars

\* the record an access works on: the record as it is when the magic tag
\* matches, the defaults otherwise
RtcDefaults ==
    [ magic |-> kRtcImageStateMagic, last_image_index |-> kRtcInvalidIndex,
      last_image_name |-> NoName, priority_image_name |-> NoName,
      last_perm_name |-> NoName, last_temp_name |-> NoName, last_was_temp |-> FALSE ]

RtcValidated ==
    IF g_rtc_image_state.magic = kRtcImageStateMagic THEN g_rtc_image_state ELSE RtcDefaults

RtcAccessStep == req'.op \in {"get", "set", "clear"} /\ vars' # vars

\* C31: every accessor works on the validated record (the defaults when the
\* magic tag does not match), leaves the tag valid and every field other
\* than its target as validated; a getter changes no field and returns the
\* validated field, a setter stores the value given (cut to the buffer), and
\* a wake keeps the record, so a value stored is the value read back
C31_AccessorsValidateAndFrame ==
    /\ [][ RtcAccessStep =>
             /\ g_rtc_image_state'.magic = kRtcImageStateMagic
             /\ \A f \in RtcFields \ {req'.field} : g_rtc_image_state'[f] = RtcValidated[f]
             /\ req'.op = "get" =>
                  /\ req'.value = RtcValidated[req'.field]
                  /\ g_rtc_image_state'[req'.field] = RtcValidated[req'.field]
             /\ req'.op = "clear" => g_rtc_image_state'[req'.field] = NoName
             /\ (req'.op = "set" /\ req'.field \notin RtcNameFields) =>
                  g_rtc_image_state'[req'.field] = req'.value
             /\ (req'.op = "set" /\ req'.field \in RtcNameFields) =>
                  /\ NameLen(g_rtc_image_state'[req'.field]) < RTC_IMAGE_NAME_MAX_LEN
                  /\ NameLen(req'.value) < RTC_IMAGE_NAME_MAX_LEN =>
                       g_rtc_image_state'[req'.field] = req'.value ]_vars
    /\ [][ req'.op = "wake" => g_rtc_image_state' = g_rtc_image_state ]_vars

\* a getter after a wake returns a name and a bit stored before the wake
C31_Witness ==
    /\ req.op = "get"
    /\ req.woke
    /\ req.field = "last_perm_name"
    /\ req.value = G4("perm", NoStamp, "a")
    /\ g_rtc_image_state.last_perm_name = G4("perm", NoStamp, "a")
    /\ g_rtc_image_state.last_was_temp
    /\ g_rtc_image_state.last_image_index = 0

\* C32: while the worker still has an access to its job ahead (it is past
\* xQueueReceive and not yet back at it), the job is allocated, and the
\* worker never touches a freed job
C32_WorkerJobAllocated ==
    /\ wpc # "recv" => Live(wjob)
    /\ "worker_use_after_free" \notin ub

(***************************************************************************)
(* PollSpec: Spec with a thread that polls jobs.  sd_storage_get_job and   *)
(* sd_storage_get_job_names take the pointer from find_job, which releases *)
(* g_jobs_mux before it returns, and read the job's fields afterwards.     *)
(* callers holds the polling thread: its position ("idle", "copy"), the    *)
(* function it is in and the pointer find_job returned.                    *)
(***************************************************************************)
PollerIdle == [pc |-> "idle", fn |-> "", job |-> NULL]

\* find_job under the lock; a null pointer (or id 0) returns false at once
PollerFind ==
    /\ callers.pc = "idle"
    /\ \E fn \in {"sd_storage_get_job", "sd_storage_get_job_names"} :
         \E id \in 0 .. MaxJobs :
           LET job == IF id = 0 /\ fn = "sd_storage_get_job" THEN NULL
                      ELSE find_job(g_jobs, heap, id)
           IN  /\ job # NULL
               /\ callers' = [pc |-> "copy", fn |-> fn, job |-> job]
    /\ UNCHANGED << evars, sd_files, sd_dirs, g_rtc_image_state, clock, azure,
                    g_render_paused, req, hpc, loc, trace, render_scheduler >>

\* the reads of job->... after the lock is released
PollerCopy ==
    /\ callers.pc = "copy"
    /\ ub' = IF Live(callers.job) THEN ub ELSE ub \cup {"poller_use_after_free"}
    /\ callers' = PollerIdle
    /\ UNCHANGED << g_spi, g_job_queue, queue, g_worker_task, g_jobs, heap, g_next_job_id,
                    g_sd_ready, now, sd_mountable, wpc, wjob, cpc, bufs, effects, rets >>
    /\ UNCHANGED << sd_files, sd_dirs, g_rtc_image_state, clock, azure,
                    g_render_paused, req, hpc, loc, trace, render_scheduler >>

PollInit ==
    /\ EngineInit
    /\ HandlersIdle
    /\ callers = PollerIdle
    /\ render_scheduler = SchedulerStatics

PollNext ==
    \/ Next
    \/ PollerFind
    \/ PollerCopy

PollSpec == PollInit /\ [][PollNext]_vars

\* C33: the job found by id is allocated while the poller copies its
\* fields out, and the poller never reads a freed job
C33_PolledJobAllocated ==
    /\ callers.pc = "copy" => Live(callers.job)
    /\ "poller_use_after_free" \notin ub

(***************************************************************************)
(* BlobPullSpec: enqueue_sd_upload_and_wait of blob_pull.cpp as the        *)
(* caller of sd_storage_enqueue_upload.  The buffer of the n-th call is    *)
(* buffer n.  On a returned id 0 the caller frees the buffer itself        *)
(* (line 324) before it does anything else.                                *)
(***************************************************************************)
\* the caller is between the return of id 0 and its heap_caps_free
PullRejected ==
    /\ rets # << >>
    /\ rets[Len(rets)] = 0
    /\ "blob_pull" \notin bufs[Len(rets)].by

enqueue_sd_upload_and_wait ==
    \/ /\ ~PullRejected
       /\ sd_storage_enqueue_upload(MaxPullUploads, MaxPullUploads, MaxPullUploads)
    \/ /\ PullRejected
       /\ bufs' = FreeBuffer(bufs, Len(rets), "blob_pull")
       /\ ub' = IF bufs[Len(rets)].frees > 0 THEN ub \cup {"double_free"} ELSE ub
       /\ UNCHANGED << g_spi, g_job_queue, queue, g_worker_task, g_jobs, heap,
                       g_next_job_id, g_sd_ready, now, sd_mountable, wpc, wjob, cpc,
                       effects, rets >>
       /\ UNCHANGED hvars

BlobPullNext ==
    \/ sd_storage_configure
    \/ enqueue_sd_upload_and_wait
    \/ sd_storage_purge_jobs
    \/ WorkerReceive(MaxPullUploads)
    \/ Worker
    \/ Tick

BlobPullSpec == Init /\ [][BlobPullNext]_vars

C35_FailedUploadKeepsTarget ==
    [][ (/\ loc.fn = "upload"
         /\ hpc # "idle"
         /\ hpc' = "idle"
         /\ ~heap'[wjob].success
         /\ loc.prior # << >>)
        => /\ SD_exists(sd_files', loc.target)
           /\ sd_files'[loc.target] = loc.prior[1] ]_vars

\* C36: once sd_storage_get_job reports Done or Error for a job, every
\* later report of the same job has the same success flag and message
C36_TerminalReportFinal ==
    [][ \A id \in 1 .. MaxJobs :
          LET before == sd_storage_get_job(g_jobs, heap, id)
              after == sd_storage_get_job(g_jobs', heap', id)
          IN  (before.found /\ IsTerminal(before.state) /\ after.found) =>
                  /\ after.success = before.success
                  /\ after.message = before.message ]_vars

(***************************************************************************)
(* CollectionSpec: Upload, List and RenderNext jobs on one medium.  The    *)
(* List handler (worker_task, case SdJobType::List) reports what           *)
(* collect_g4_names finds; RenderNext lists its own directories.           *)
(***************************************************************************)
\* collect_g4_names_from_dir of one of the two directories
CollectedFrom(files, dir) == { path[1] : path \in { q \in ManagedPaths(files) : q[1].dir = dir } }

handle_list ==
    /\ wpc = "handler"
    /\ hpc = "idle"
    /\ heap[wjob].type = "List"
    /\ loc' = [fn |-> "list", job |-> wjob]
    /\ \/ HandlerReturn([JobCompleted(heap[wjob], TRUE, heap[wjob].message) EXCEPT
                            !.names = sort_names(CollectedFrom(sd_files, "queue-permanent")
                                          \cup CollectedFrom(sd_files, "queue-temporary"))])
       \* a directory that exists fails to open: the other one is still collected
       \/ \E failed \in (SUBSET ({"queue-permanent", "queue-temporary"} \cap sd_dirs)) \ {{}} :
            HandlerReturn([JobCompleted(heap[wjob], FALSE, "SD unavailable") EXCEPT
                !.names = sort_names(UNION { CollectedFrom(sd_files, dir) :
                              dir \in {"queue-permanent", "queue-temporary"} \ failed })])
    /\ UNCHANGED << g_spi, g_job_queue, queue, g_worker_task, g_jobs, g_next_job_id,
                    g_sd_ready, now, sd_mountable, wjob, cpc, bufs, rets, ub >>
    /\ UNCHANGED << sd_files, sd_dirs, g_rtc_image_state, clock, azure, g_render_paused,
                    req, cvars, trace >>

CollectionNames == { G4("queue-permanent", NoStamp, "a"), G4("queue-temporary", StampOld, "a") }

CollectionInit ==
    /\ EngineInit
    /\ req \in [name : CollectionNames, size : {MaxPayload}, mode : {"Sequential"}]
    /\ sd_files \in { << >>, [ path \in { PathOf(G4("perm", NoStamp, "a")) }
                                 |-> Payload(NULL, MaxPayload, MaxPayload) ] }
    /\ sd_dirs = IF sd_files = << >> THEN {} ELSE {"perm"}
    /\ g_rtc_image_state = RtcPowerOn
    /\ clock = ClockValid
    /\ azure = [wifi |-> FALSE]
    /\ g_render_paused = FALSE
    /\ hpc = "idle"
    /\ loc = NoLocals
    /\ trace = NoTrace
    /\ CallersIdle

CollectionNext ==
    \/ sd_storage_configure
    \/ sd_storage_enqueue_upload(MaxCollectionJobs, 0, MaxCollectionJobs)
    \/ sd_storage_enqueue_list(MaxCollectionJobs, 0, MaxCollectionJobs)
    \/ sd_storage_enqueue_render_next(MaxCollectionJobs, 0, MaxCollectionJobs)
    \/ WorkerReceive(MaxCollectionJobs)
    \/ WorkerEnsure
    \/ WorkerMountDone
    \/ WorkerSdFailRest
    \/ write_upload_to_sd
    \/ handle_list
    \/ image_render_service_render_next
    \/ WorkerStamp
    \/ WorkerFreeBuffer
    \/ ShowNext(CollectionNames, MaxShowNext)

CollectionSpec == CollectionInit /\ [][CollectionNext]_vars

\* C37: when a RenderNext job has enumerated its candidates, every file
\* that an Upload job committed and a List job reported is among them
C37_ListedAreCandidates ==
    (loc.fn = "render" /\ loc.via = "normal") =>
        \A i \in DOMAIN heap :
            (heap[i].type = "List" /\ heap[i].state = "Done") =>
                \A k \in 1 .. Len(heap[i].names) :
                    (/\ SD_exists(sd_files, PathOf(heap[i].names[k]))
                     /\ sd_files[PathOf(heap[i].names[k])].data # NULL) =>
                        \E c \in Range(loc.perm_names) \cup Range(loc.temp_names) :
                            PathOf(c) = PathOf(heap[i].names[k])

\* C38: when a tick absorbs the success of a job that was outstanding at
\* the latest refresh request, the tick enqueues a new RenderNext job or
\* leaves the request pending
C38_RequestDuringJobKept ==
    [][ (/\ AbsorbStep
         /\ trace.requested = render_scheduler.g_render_job_id
         /\ sd_storage_get_job(g_jobs, heap, render_scheduler.g_render_job_id).found
         /\ sd_storage_get_job(g_jobs, heap, render_scheduler.g_render_job_id).success)
        => \/ render_scheduler'.g_render_job_id # 0
           \/ render_scheduler'.g_pending_refresh ]_vars

\* the jobs that called the renderer on the override's path
PriorityJobs ==
    { trace.rendered[i].job : i \in { k \in 1 .. Len(trace.rendered) :
                                        trace.rendered[k].via = "priority" } }

\* C39: when a RenderNext job that read a non-empty override has returned
\* and show_next has not written since the job cleared it, the override is
\* empty, whether the file was missing, the render failed or it succeeded;
\* no more jobs render an override than overrides were written
C39_OverrideConsumedWhateverOutcome ==
    /\ (/\ loc.fn = "render"
        /\ hpc = "idle"
        /\ loc.prio_read # NoName
        /\ trace.sets = loc.sets)
          => rtc_image_state_get_priority_image_name(g_rtc_image_state) = NoName
    /\ Cardinality(PriorityJobs) <= trace.sets

\* a job whose render of the override failed has returned
C39_Witness ==
    /\ loc.fn = "render"
    /\ hpc = "idle"
    /\ loc.prio_read = G4("queue-temporary", StampOld, "a")
    /\ loc.prio_exists
    /\ heap[loc.job].state = "Error"
    /\ trace.sets = loc.sets
    /\ g_rtc_image_state.priority_image_name = NoName
    /\ \E i \in AttemptsOf(loc.job) :
          trace.rendered[i].via = "priority" /\ ~trace.rendered[i].ok

\* C40: when image_render_service_render_next returns false, the last-image
\* name, the permanent and the temporary cursor and last_was_temp read as
\* they did when the job started
C40_FailedJobKeepsCursors ==
    [][ (/\ loc.fn = "render"
         /\ hpc # "idle"
         /\ hpc' = "idle"
         /\ ~heap'[wjob].success)
        => Cursors(g_rtc_image_state') = loc.cursors0 ]_vars

\* the renderer failed on the selection of a job that started with a cursor
\* left by an earlier job
C40_Witness ==
    /\ loc.fn = "render"
    /\ hpc = "idle"
    /\ loc.job = wjob
    /\ ~heap[wjob].success
    /\ loc.via = "normal"
    /\ loc.selected_name # NoName
    /\ loc.cursors0.last_perm_name # NoName
    /\ loc.cursors0.last_temp_name # NoName
    /\ Cursors(g_rtc_image_state) = loc.cursors0

============================================================================
